---- MODULE Spec2Model ----
(***************************************************************************)
(* OpenBare: the caller-side failover pool (ServerPool, OpenBareClient)    *)
(* and the wire exchange with a relay node (bareFetch against              *)
(* handleBareV3Request).                                                   *)
(*                                                                         *)
(* One OpenBareClient owns one ServerPool.  JavaScript runs one            *)
(* synchronous segment at a time: every action below is one such segment   *)
(* (from one await to the next), except that the synchronous search loop   *)
(* of OpenBareClient.fetch is unrolled one iteration per step, so that a   *)
(* search that never ends is a cycle of the state graph.  While the        *)
(* client is inside that synchronous code (pc "loop" or "search") nothing  *)
(* else can run.                                                           *)
(***************************************************************************)
EXTENDS Integers, Sequences, FiniteSets, TLC

(***************************************************************************)
(* Bounds of the model.                                                    *)
(***************************************************************************)
MaxProbes == 1
\* health-probe results (ServerPool.testServer) delivered in one behaviour

MaxTicks == 3
\* clock steps in one behaviour

MaxRetriesOpt == 3
\* largest value of the per-call option retries

MaxPoolCalls == 5
\* calls of the ServerPool interface in one behaviour

MaxPoolTicks == 2
\* recovery intervals that pass between those calls

MaxFrames == 2
\* frames that arrive at a tunnel in one behaviour

MaxFetches == 2
\* calls of Discovery.fetchNodes in one behaviour

MaxDiscTicks == 1
\* refresh intervals that pass between those calls

MaxTailLen == 2
\* code units after the origin in the URLs given to the codec

MaxClientFetches == 3
\* calls of OpenBareClient.fetch that one application makes in a row

MaxBeatsInFlight == 2
\* calls of sendHeartbeat that have not returned at the same time

MaxUnregistersInFlight == 1
\* calls of unregisterNode that have not returned

MaxFailuresCounted == 8
\* value of state.failures up to which a registration is answered with a
\* null body

(***************************************************************************)
(* Program constants.                                                      *)
(***************************************************************************)
DefaultRetries == 3
DefaultTimeout == 30000
DefaultMaxFailures == 3
DefaultRecoveryTime == 60000
DefaultPriority == 10
Infinity == 1000000000
\* the latency of a node that was never measured; larger than any sample

\* The clock advances one request timeout at a time.
TickMs == DefaultTimeout

\* A node URL: its text up to the trailing slashes, and how many slashes follow.
Url(text, trailing) == [text |-> text, trailing |-> trailing]

\* The nodes, in the order in which the setup adds them.
Nodes == <<"http://a", "http://b", "http://c">>
NodeSet == {Nodes[i] : i \in 1..Len(Nodes)}
RawUrls == {Url(n, t) : n \in NodeSet, t \in {0, 1}}
NoServer == Url("null", 0)

Priorities == {1, DefaultPriority}
Strategies == {"fastest", "round-robin", "priority"}

\* Latency samples (ms) measured by performance.now() around an attempt or a probe.
LatencySamples == {30, 50}

\* The latency a successful health probe measures.
ProbeLatency == CHOOSE l \in LatencySamples : \A m \in LatencySamples : l <= m

\* Target URLs given to fetch; ValidTargets are those new URL() parses.
TargetUrls == {"https://example.com/", "not a url"}
ValidTargets == {"https://example.com/"}

\* Statuses the real target answers with.
UpstreamStatuses == {200, 404}

VARIABLES
  poolOptions,       \* ServerPool.#options
  servers,           \* ServerPool.#servers, in Map (insertion) order
  roundRobinIndex,   \* ServerPool.#roundRobinIndex
  now,               \* Date.now()
  pc,                \* where OpenBareClient.fetch stands
  maxRetries,        \* maxRetries of the running fetch
  targetUrl,         \* the URL the running fetch asks for
  signal,            \* options.signal: "none", "armed" or "aborted"
  attempt,           \* loop counter of fetch
  attemptedServers,  \* the Set attemptedServers of fetch
  lastError,         \* lastError of fetch (an error code, or "null")
  server,            \* the local variable server of fetch
  startTime,         \* Date-clock time at which the running attempt began
  outcome,           \* how the fetch ended
  attemptLog,        \* history: node URLs attempted by this fetch, in order
  reportLog,         \* history: reports this fetch made to the pool, in order
  abortedAt,         \* history: Len(attemptLog) when the signal was aborted, or -1
  healthyAtStart,    \* history: URLs of the nodes marked healthy when fetch was called
  probeCount,        \* probe results delivered so far
  poolCall,          \* history: the last call of the ServerPool interface
  streak,            \* history: failure reports per node since its last success report
  rotation,          \* history: selectServer results while the healthy list stayed the same
  callCount,         \* calls of the ServerPool interface so far
  relayPc,           \* where one relay exchange stands
  relayRequest,      \* the request the relay received (its sidecar headers)
  upstream,          \* what the target answered to the relay's fetch
  relayReply,        \* the relay's response
  decoded,           \* the response object bareFetch built from relayReply
  tunnelPc,          \* where one WebSocket upgrade stands
  targetWs,          \* the relay's socket to the target
  clientWs,          \* the caller-facing socket the relay accepted
  pending,           \* events received from either side, not yet dispatched
  frames,            \* frames the relay has sent on to either side
  cacheNodes,        \* Discovery.#nodes
  lastFetch,         \* Discovery.#lastFetch
  refreshTimer,      \* Discovery.#refreshTimer is set
  listeners,         \* Discovery.#listeners, in Set (insertion) order
  inFlight,          \* callers of fetchNodes whose fetch has not settled
  delivered,         \* history: the listener calls of the last successful fetch
  discHist,          \* history: fetches begun, the last settled call, clock ticks
  awaited,           \* the call of discover whose fetchNodes has returned and whose
                     \* loop has not run yet, with the array it was handed
  clientOptions,     \* OpenBareClient.#options (the strategy field)
  codec,             \* one round trip of a URL through encodeUrl and decodeUrl
  handshake,         \* the headers of one upgrade and those sent to the target
  heartbeat,         \* the registry client of a relay node (server/register.js)
  cancelled,         \* history: the fetches before this one, and how many of the
                     \* last ones were cancelled in flight on the same node
  registry           \* Discovery.#registryUrl, and whether it was set by
                     \* setRegistryUrl with no fetch issued since

poolVars == <<poolOptions, servers, roundRobinIndex>>
fetchVars == <<pc, maxRetries, targetUrl, signal, attempt, attemptedServers, lastError,
               server, startTime, outcome>>
histVars == <<attemptLog, reportLog, abortedAt, healthyAtStart>>
budgetVars == <<probeCount>>
poolApiVars == <<poolCall, streak, rotation, callCount>>
clientVars == <<fetchVars, histVars, budgetVars>>
\* What the client's fetch does not touch.
relayVars == <<relayPc, relayRequest, upstream, relayReply, decoded>>
tunnelVars == <<tunnelPc, targetWs, clientWs, pending, frames>>
nodeVars == <<handshake, heartbeat, cancelled, registry>>
libVars == <<clientOptions, codec, nodeVars>>
edgeVars == <<relayVars, tunnelVars, libVars>>
discVars == <<cacheNodes, lastFetch, refreshTimer, listeners, inFlight, delivered, discHist,
              awaited>>
otherVars == <<poolApiVars, edgeVars, discVars>>
vars == <<poolVars, now, fetchVars, histVars, budgetVars, otherVars>>

(***************************************************************************)
(* ServerPool (client/src/server-pool.js)                                  *)
(***************************************************************************)

\* A normalization that keeps the trailing slashes.
normalizeUrlKeepsSlash(url) == url

\* #normalizeUrl: the trailing slashes are removed.
normalizeUrl(url) == [url EXCEPT !.trailing = 0]

ServerInfo(url, priority) ==
  [url |-> url, priority |-> priority, healthy |-> TRUE, latency |-> Infinity,
   failCount |-> 0, lastCheck |-> 0, successCount |-> 0, totalRequests |-> 0]

IndexOf(svrs, url) ==
  IF \E i \in 1..Len(svrs) : svrs[i].url = url
  THEN CHOOSE i \in 1..Len(svrs) : svrs[i].url = url
  ELSE 0

\* An addServer that starts the record of a known URL afresh.
addServerAnew(svrs, url, priority) ==
  LET i == IndexOf(svrs, normalizeUrl(url)) IN
  IF i > 0
  THEN [svrs EXCEPT ![i] = ServerInfo(normalizeUrl(url), priority)]
  ELSE Append(svrs, ServerInfo(normalizeUrl(url), priority))

\* addServer: an existing record only gets the new priority; a new record is
\* appended to the Map.
addServer(svrs, url, priority) ==
  LET i == IndexOf(svrs, normalizeUrl(url)) IN
  IF i > 0
  THEN [svrs EXCEPT ![i].priority = priority]
  ELSE Append(svrs, ServerInfo(normalizeUrl(url), priority))

\* A filter callback that gives the second chance one instant too early.
recoverServerEarly(s, t, opts) ==
  IF s.healthy THEN s
  ELSE IF t - s.lastCheck >= opts.recoveryTime
       THEN [s EXCEPT !.healthy = TRUE, !.failCount = 0]
       ELSE s

\* A filter callback that gives the second chance and keeps the count.
recoverServerKeepsCount(s, t, opts) ==
  IF s.healthy THEN s
  ELSE IF t - s.lastCheck > opts.recoveryTime
       THEN [s EXCEPT !.healthy = TRUE]
       ELSE s

\* The filter callback of getHealthyServers, as the record it leaves behind:
\* an unhealthy node whose last check is older than recoveryTime is given
\* another chance.
recoverServer(s, t, opts) ==
  IF s.healthy THEN s
  ELSE IF t - s.lastCheck > opts.recoveryTime
       THEN [s EXCEPT !.healthy = TRUE, !.failCount = 0]
       ELSE s

\* The pool after a call of getHealthyServers at time t.
recoverAll(svrs, t, opts) ==
  [i \in 1..Len(svrs) |-> recoverServer(svrs[i], t, opts)]

\* The list getHealthyServers returns at time t.
getHealthyServers(svrs, t, opts) ==
  SelectSeq(recoverAll(svrs, t, opts), LAMBDA s : s.healthy)

\* setFallbackOrder(urls), from the i-th URL on: a node of the pool gets its
\* position in the list as priority, URLs not in the pool are passed over.
RECURSIVE setFallbackOrder(_, _, _)
setFallbackOrder(svrs, urls, i) ==
  IF i > Len(urls) THEN svrs
  ELSE LET normalizedUrl == normalizeUrl(urls[i])
           written == [j \in 1..Len(svrs) |->
                         IF svrs[j].url = normalizedUrl
                         THEN [svrs[j] EXCEPT !.priority = i] ELSE svrs[j]]
       IN  setFallbackOrder(written, urls, i + 1)

\* Math.round(x / n) for x >= 0 and n > 0
roundedQuotient(x, n) == (2 * x + n) \div (2 * n)

RECURSIVE latencySum(_)
latencySum(list) ==
  IF list = <<>> THEN 0
  ELSE (IF Head(list).latency = Infinity THEN 0 ELSE Head(list).latency)
       + latencySum(Tail(list))

\* The object getStats returns at time t.
getStats(svrs, t, opts) ==
  LET healthy == getHealthyServers(svrs, t, opts)
  IN  [total |-> Len(svrs),
       healthy |-> Len(healthy),
       unhealthy |-> Len(svrs) - Len(healthy),
       avgLatency |-> IF Len(healthy) > 0
                      THEN roundedQuotient(latencySum(healthy), Len(healthy)) ELSE 0,
       strategy |-> opts.strategy]

\* A reducer that compares latencies only.
fasterOfByLatencyOnly(best, s) ==
  IF s.latency < best.latency THEN s ELSE best

\* The reducer of #selectFastest.
fasterOf(best, s) ==
  IF s.latency < best.latency THEN s
  ELSE IF s.latency = best.latency /\ s.priority < best.priority THEN s
  ELSE best

\* The reducer of #selectByPriority.
higherPriorityOf(best, s) ==
  IF s.priority < best.priority THEN s ELSE best

RECURSIVE reduceFastest(_, _, _)
reduceFastest(best, list, i) ==
  IF i > Len(list) THEN best
  ELSE reduceFastest(fasterOf(best, list[i]), list, i + 1)

RECURSIVE reduceByPriority(_, _, _)
reduceByPriority(best, list, i) ==
  IF i > Len(list) THEN best
  ELSE reduceByPriority(higherPriorityOf(best, list[i]), list, i + 1)

\* A rotation that skips every other position.
selectRoundRobinByTwo(list, rr) == list[((2 * rr) % Len(list)) + 1]

\* Array.prototype.reduce without an initial value, on a non-empty list.
selectFastest(list) == reduceFastest(list[1], list, 2)
selectByPriority(list) == reduceByPriority(list[1], list, 2)
selectRoundRobin(list, rr) == list[(rr % Len(list)) + 1]

\* A selectServer that applies the strategy to every node of the pool.
selectServerOfAll(svrs, t, opts, rr) ==
  LET all == recoverAll(svrs, t, opts) IN
  IF Len(all) = 0 THEN [server |-> NoServer, index |-> rr]
  ELSE IF opts.strategy = "round-robin"
       THEN [server |-> selectRoundRobin(all, rr).url, index |-> rr + 1]
  ELSE IF opts.strategy = "priority"
       THEN [server |-> selectByPriority(all).url, index |-> rr]
  ELSE [server |-> selectFastest(all).url, index |-> rr]

\* selectServer: the URL of the selected node (NoServer for null) and the
\* round-robin counter it leaves behind.
selectServer(svrs, t, opts, rr) ==
  LET healthy == getHealthyServers(svrs, t, opts) IN
  IF Len(healthy) = 0 THEN [server |-> NoServer, index |-> rr]
  ELSE IF opts.strategy = "round-robin"
       THEN [server |-> selectRoundRobin(healthy, rr).url, index |-> rr + 1]
  ELSE IF opts.strategy = "priority"
       THEN [server |-> selectByPriority(healthy).url, index |-> rr]
  ELSE [server |-> selectFastest(healthy).url, index |-> rr]

\* getNextServer: the fastest healthy node other than excludeUrl.
getNextServer(svrs, t, opts, excludeUrl) ==
  LET healthy == SelectSeq(getHealthyServers(svrs, t, opts),
                           LAMBDA s : s.url # normalizeUrl(excludeUrl)) IN
  IF Len(healthy) = 0 THEN NoServer ELSE selectFastest(healthy).url

\* A moving average that drops the fraction instead of rounding.
MovingAverageTruncated(estimate, sample) == (7 * estimate + 3 * sample) \div 10

\* Math.round(estimate * 0.7 + sample * 0.3) on integers: tenths are rounded
\* half up, which is what the floating-point expression yields for every
\* estimate the model reaches from LatencySamples.
MovingAverage(estimate, sample) == (7 * estimate + 3 * sample + 5) \div 10

newLatency(s, latency) ==
  IF latency > 0
  THEN IF s.latency = Infinity THEN latency ELSE MovingAverage(s.latency, latency)
  ELSE s.latency

\* A reportSuccess that forgets to reset the consecutive-failure counter.
reportSuccessKeepsFailCount(svrs, url, latency, t) ==
  LET i == IndexOf(svrs, normalizeUrl(url)) IN
  IF i = 0 THEN svrs
  ELSE [svrs EXCEPT ![i] = [@ EXCEPT !.healthy = TRUE,
                                     !.successCount = @ + 1,
                                     !.totalRequests = @ + 1,
                                     !.lastCheck = t,
                                     !.latency = newLatency(svrs[i], latency)]]

\* A reportSuccess that adds a record for a URL the pool does not hold.
reportSuccessCreates(svrs, url, latency, t) ==
  LET i == IndexOf(svrs, normalizeUrl(url))
      known == IF i = 0 THEN Append(svrs, ServerInfo(normalizeUrl(url), DefaultPriority))
               ELSE svrs
      k == IndexOf(known, normalizeUrl(url))
  IN  [known EXCEPT ![k] = [@ EXCEPT !.healthy = TRUE,
                                     !.failCount = 0,
                                     !.successCount = @ + 1,
                                     !.totalRequests = @ + 1,
                                     !.lastCheck = t,
                                     !.latency = newLatency(known[k], latency)]]

\* reportSuccess(url, latency) at time t.
reportSuccess(svrs, url, latency, t) ==
  LET i == IndexOf(svrs, normalizeUrl(url)) IN
  IF i = 0 THEN svrs
  ELSE [svrs EXCEPT ![i] = [@ EXCEPT !.healthy = TRUE,
                                     !.failCount = 0,
                                     !.successCount = @ + 1,
                                     !.totalRequests = @ + 1,
                                     !.lastCheck = t,
                                     !.latency = newLatency(svrs[i], latency)]]

\* A reportFailure that tolerates one failure more than maxFailures.
failedServerLate(s, t, opts) ==
  [s EXCEPT !.failCount = @ + 1,
            !.totalRequests = @ + 1,
            !.lastCheck = t,
            !.healthy = IF s.failCount + 1 > opts.maxFailures THEN FALSE ELSE @]

failedServer(s, t, opts) ==
  [s EXCEPT !.failCount = @ + 1,
            !.totalRequests = @ + 1,
            !.lastCheck = t,
            !.healthy = IF s.failCount + 1 >= opts.maxFailures THEN FALSE ELSE @]

\* A reportFailure that writes the failure into every record of the pool.
reportFailureToAll(svrs, url, t, opts) ==
  [i \in 1..Len(svrs) |-> failedServer(svrs[i], t, opts)]

\* reportFailure(url) at time t.
reportFailure(svrs, url, t, opts) ==
  LET i == IndexOf(svrs, normalizeUrl(url)) IN
  IF i = 0 THEN svrs
  ELSE [svrs EXCEPT ![i] = failedServer(svrs[i], t, opts)]

(***************************************************************************)
(* The wire exchange: bareFetch (client/src/bare-fetch.js) against         *)
(* handleBareV3Request (edge/src/bare-protocol.js)                         *)
(***************************************************************************)

\* What the real target does when the relay fetches it.
Targets ==
  {[reachable |-> TRUE, status |-> st] : st \in UpstreamStatuses}
    \cup {[reachable |-> FALSE, status |-> 0]}

\* The relay's HTTP response: its own status, the x-bare-status header (0 when
\* the header is absent) and the code of its JSON error body ("none" when the
\* body is the upstream body).
handleBareV3Request(target) ==
  IF target.reachable
  THEN [status |-> 200, bareStatus |-> target.status, error |-> "none"]
  ELSE [status |-> 500, bareStatus |-> 0, error |-> "FETCH_ERROR"]

NoResponse == [status |-> 0, ok |-> FALSE, relayError |-> "none"]

\* The BareResponse bareFetch builds from the relay's response.
BareResponse(response) ==
  LET responseStatus == IF response.bareStatus # 0 THEN response.bareStatus
                        ELSE response.status IN
  [status |-> responseStatus,
   ok |-> responseStatus >= 200 /\ responseStatus < 300,
   relayError |-> response.error]

Resolved(response) == [threw |-> FALSE, code |-> "none", response |-> response]
Rejected(code) == [threw |-> TRUE, code |-> code, response |-> NoResponse]

\* The ways one call of bareFetch can settle: url is the target, sig the
\* caller's signal, timedOut whether the attempt's timer has fired.
bareFetch(url, sig, timedOut) ==
  IF url \notin ValidTargets THEN {Rejected("INVALID_URL")}
  ELSE IF sig = "aborted" \/ timedOut THEN {Rejected("TIMEOUT")}
  ELSE {Resolved(BareResponse(handleBareV3Request(t))) : t \in Targets}
         \cup {Rejected("FETCH_ERROR")}

(***************************************************************************)
(* OpenBareClient.fetch (client/src/index.js)                              *)
(***************************************************************************)

Pending == [kind |-> "pending", code |-> "none", attempts |-> 0,
            cause |-> "null", response |-> NoResponse]

Returned(response) == [kind |-> "returned", code |-> "none", attempts |-> 0,
                       cause |-> "null", response |-> response]

Thrown(code) == [kind |-> "thrown", code |-> code, attempts |-> 0,
                 cause |-> "null", response |-> NoResponse]

\* An aggregate error that drops the last attempt's error.
AllServersFailedWithoutCause(attempted, cause) ==
  [kind |-> "thrown", code |-> "ALL_SERVERS_FAILED",
   attempts |-> Cardinality(attempted), cause |-> "null", response |-> NoResponse]

\* The BareError thrown after the loop.
AllServersFailed(attempted, cause) ==
  [kind |-> "thrown", code |-> "ALL_SERVERS_FAILED",
   attempts |-> Cardinality(attempted), cause |-> cause, response |-> NoResponse]

\* options.retries || this.#options.retries
effectiveRetries(retries) == IF retries = 0 THEN DefaultRetries ELSE retries

\* A loop that forgets which nodes it tried.
markNothing(attempted, url) == attempted

\* attemptedServers.add(server.url)
markAttempted(attempted, url) == attempted \cup {url}

\* A catch block that rethrows whatever the attempt threw.
stopsOnAnyError(code, sig) == TRUE

\* The catch block's test "If aborted, don't retry".
stopsRetrying(code, sig) == code = "ABORT" \/ sig = "aborted"

(***************************************************************************)
(* The rest of the ServerPool interface, and what an observer of its calls *)
(* remembers                                                               *)
(***************************************************************************)

\* removeServer: Map.delete of the normalized URL.
removeServer(svrs, url) ==
  SelectSeq(svrs, LAMBDA s : s.url # normalizeUrl(url))

\* The onUpdate callback of discovery and OpenBareClient.discover: addServer
\* for every node of the list, in order, without a priority argument.
RECURSIVE discoveryUpdate(_, _, _)
discoveryUpdate(svrs, urls, i) ==
  IF i > Len(urls) THEN svrs
  ELSE discoveryUpdate(addServer(svrs, urls[i], DefaultPriority), urls, i + 1)

\* The URLs of a list of records, in order.
UrlsOf(list) == [i \in 1..Len(list) |-> list[i].url]
Range(seq) == {seq[i] : i \in 1..Len(seq)}

\* Nodes marked unhealthy whose last check is at most recoveryTime old, and
\* those whose last check is older.
BlockedUrls(svrs, t, opts) ==
  {svrs[i].url : i \in {j \in 1..Len(svrs) :
      ~svrs[j].healthy /\ t - svrs[j].lastCheck <= opts.recoveryTime}}
DueUrls(svrs, t, opts) ==
  {svrs[i].url : i \in {j \in 1..Len(svrs) :
      ~svrs[j].healthy /\ t - svrs[j].lastCheck > opts.recoveryTime}}

\* A query of the pool or a report to it: the operation, its URL argument, the URLs it returned
\* (for selectServer and getNextServer: one URL, none for null), the nodes
\* that were blocked and due when it was made, and the round-robin counter
\* before it.
PoolCall(op, url, result, svrs, t, opts, rr) ==
  [op |-> op, url |-> url, result |-> result,
   blocked |-> BlockedUrls(svrs, t, opts), due |-> DueUrls(svrs, t, opts),
   rrBefore |-> rr, priority |-> 0]
\* A call that changes the pool: the operation, its URL argument (normalized)
\* and the URLs of the records it wrote; for addServer also the priority
\* the pool was given (the default when the caller passed none).
PoolChange(op, url, result) ==
  [op |-> op, url |-> url, result |-> result,
   blocked |-> {}, due |-> {}, rrBefore |-> 0, priority |-> 0]
NoCall == [op |-> "none", url |-> NoServer, result |-> <<>>,
           blocked |-> {}, due |-> {}, rrBefore |-> 0, priority |-> 0]

NoRotation == [healthy |-> <<>>, picks |-> <<>>]

\* The state of the client while no fetch has been called.
ClientIdle ==
  /\ pc = "idle"
  /\ maxRetries = 0
  /\ targetUrl = "none"
  /\ signal = "none"
  /\ attempt = 0
  /\ attemptedServers = {}
  /\ lastError = "null"
  /\ server = NoServer
  /\ startTime = 0
  /\ outcome = Pending
  /\ attemptLog = <<>>
  /\ reportLog = <<>>
  /\ abortedAt = -1
  /\ healthyAtStart = {}
  /\ probeCount = 0

\* No call of the pool interface has been observed.
PoolApiIdle ==
  /\ poolCall = NoCall
  /\ streak = [n \in NodeSet |-> 0]
  /\ rotation = NoRotation
  /\ callCount = 0

\* ---------------------------------------------------------------------------
\* The relay's handler at header level (edge/src/bare-protocol.js) and the
\* client's decoding of its reply (client/src/bare-fetch.js).
\* ---------------------------------------------------------------------------

\* CORS_HEADERS of edge/src/index.js, by the names a Headers object keeps.
CORS_HEADERS ==
  {"access-control-allow-origin", "access-control-allow-methods",
   "access-control-allow-headers", "access-control-expose-headers",
   "access-control-max-age"}

\* STRIP_HEADERS of edge/src/index.js.
STRIP_HEADERS ==
  {"x-frame-options", "content-security-policy",
   "content-security-policy-report-only", "x-content-type-options",
   "x-xss-protection", "strict-transport-security",
   "cross-origin-opener-policy", "cross-origin-embedder-policy",
   "cross-origin-resource-policy", "permissions-policy"}

\* Header names a target may send, in the spelling it sends them.
UpstreamHeaderNames ==
  {"X-Frame-Options", "content-security-policy", "Permissions-Policy",
   "Content-Type", "Set-Cookie", "x-powered-by", "__proto__"}

\* String.prototype.toLowerCase on the names above.
toLowerCase(name) ==
  CASE name = "X-Frame-Options" -> "x-frame-options"
    [] name = "Permissions-Policy" -> "permissions-policy"
    [] name = "Content-Type" -> "content-type"
    [] name = "Set-Cookie" -> "set-cookie"
    [] name = "Host" -> "host"
    [] name = "Upgrade" -> "upgrade"
    [] name = "Sec-WebSocket-Key" -> "sec-websocket-key"
    [] name = "Sec-WebSocket-Protocol" -> "sec-websocket-protocol"
    [] name = "Cookie" -> "cookie"
    [] OTHER -> name

\* The names response.headers.entries() yields: a Headers object keeps every
\* name in lower case.
HeaderEntries(names) == {toLowerCase(n) : n \in names}

\* Number.prototype.toString: the decimal digits of a status code.
RECURSIVE toString(_)
toString(n) ==
  IF n < 10 THEN <<n>> ELSE Append(toString(n \div 10), n % 10)

\* parseInt(text, 10) on a string of decimal digits.
RECURSIVE parseInt(_)
parseInt(text) ==
  IF Len(text) = 0 THEN 0
  ELSE 10 * parseInt(SubSeq(text, 1, Len(text) - 1)) + text[Len(text)]

\* The statuses a target answers with, and those among them that redirect.
RelayedStatuses == {200, 204, 301, 302, 404, 500}
RedirectStatuses == {301, 302}

\* A target's answer: its status and headers, and the status that the page
\* named by its Location header answers with when the status is a redirect.
Upstreams ==
  {[reachable |-> TRUE, status |-> st, headers |-> hs, locationStatus |-> ls] :
     st \in RelayedStatuses, hs \in SUBSET UpstreamHeaderNames, ls \in {200}}
  \cup {[reachable |-> FALSE, status |-> 0, headers |-> {}, locationStatus |-> 0]}

NoUpstream == [reachable |-> FALSE, status |-> 0, headers |-> {}, locationStatus |-> 0]

\* fetch(targetUrl, {redirect}): with 'manual' a redirect response is the
\* result; with 'follow' the result is the answer of the page it names.
fetchTarget(up, redirect) ==
  IF redirect = "follow" /\ up.status \in RedirectStatuses
  THEN [status |-> up.locationStatus, headers |-> {}]
  ELSE [status |-> up.status, headers |-> HeaderEntries(up.headers)]

\* The x-bare-pass-status header of a request: absent, a JSON array or a
\* comma list of status codes.
PassStatusHeaders ==
  {[form |-> "absent", codes |-> <<>>],
   [form |-> "json", codes |-> <<404>>],
   [form |-> "json", codes |-> <<301, 404, 500>>],
   [form |-> "list", codes |-> <<204, 302>>]}

\* The x-bare-url header of a request ("" when absent) and whether the
\* x-bare-protocol, x-bare-host and x-bare-path headers are all present.
BareUrls == {"", "https://example.com/", "ftp://example.com/", "not a url"}

RelayRequests ==
  {[bareUrl |-> u, components |-> c, passStatus |-> p] :
     u \in BareUrls, c \in BOOLEAN, p \in PassStatusHeaders}

NoRequest == [bareUrl |-> "", components |-> FALSE, passStatus |-> [form |-> "absent", codes |-> <<>>]]

\* parseBareHeaders: the fields of the request the handler goes on with.
parseBareHeaders(request) ==
  [url |-> request.bareUrl,
   components |-> request.components,
   passStatus |-> IF request.passStatus.form = "absent" THEN <<>>
                  ELSE request.passStatus.codes]

\* buildTargetUrl followed by the protocol check of handleBareV3Request: the
\* code of the BareError thrown, "none" when the target URL is accepted.  The
\* components the client sends are those of an http(s) URL.
buildTargetUrl(bareData) ==
  IF bareData.url # ""
  THEN CASE bareData.url = "not a url" -> "INVALID_BARE_URL"
         [] bareData.url = "ftp://example.com/" -> "INVALID_PROTOCOL"
         [] OTHER -> "none"
  ELSE IF bareData.components THEN "none" ELSE "MISSING_BARE_URL"

\* The keys of the plain object buildBareResponseHeaders collects: an
\* assignment to the key __proto__ of an object literal sets its prototype
\* and creates no property, so JSON.stringify does not list it.
snapshotKeys(entries, stripHeaders) ==
  {key \in entries : key \notin stripHeaders /\ key # "__proto__"}

ContentHeaders == {"content-type", "content-length", "content-encoding"}

\* buildBareResponseHeaders: the x-bare-status value, the keys of the
\* x-bare-headers snapshot and the names of the wrapper's own headers.
buildBareResponseHeaders(response, corsHeaders, stripHeaders) ==
  [xBareStatus |-> toString(response.status),
   snapshot |-> snapshotKeys(response.headers, stripHeaders),
   headers |-> corsHeaders
               \cup {"x-bare-status", "x-bare-status-text", "x-bare-headers"}
               \cup (ContentHeaders \cap response.headers)]

\* A handler that lets fetch follow redirects.
relayFetchFollowing(up) == fetchTarget(up, "follow")

\* The fetch the handler issues: redirect 'manual'.
relayFetch(up) == fetchTarget(up, "manual")

\* The status of the wrapper response.
wrapperStatus(response, bareData) == 200

\* BareError.toResponse and the FETCH_ERROR answer of the catch block.
errorReply(status, code, corsHeaders) ==
  [status |-> status, xBareStatus |-> <<>>, snapshot |-> {},
   headers |-> corsHeaders \cup {"content-type"}, error |-> code]

\* handleBareV3Request on a request and the target's answer to its fetch.
relayReplyTo(request, up) ==
  LET bareData == parseBareHeaders(request)
      rejected == buildTargetUrl(bareData)
  IN  IF rejected # "none" THEN errorReply(400, rejected, CORS_HEADERS)
      ELSE IF ~up.reachable THEN errorReply(500, "FETCH_ERROR", CORS_HEADERS)
      ELSE LET response == relayFetch(up)
               built == buildBareResponseHeaders(response, CORS_HEADERS, STRIP_HEADERS)
           IN  [status |-> wrapperStatus(response, bareData),
                xBareStatus |-> built.xBareStatus,
                snapshot |-> built.snapshot,
                headers |-> built.headers,
                error |-> "none"]

NoReply == [status |-> 0, xBareStatus |-> <<>>, snapshot |-> {}, headers |-> {}, error |-> "none"]

\* The object bareFetch returns for a reply: status and ok as BareResponse
\* computes them from x-bare-status, headers from the decoded snapshot.
decodeReply(reply) ==
  LET response == BareResponse([status |-> reply.status,
                                bareStatus |-> IF reply.xBareStatus = <<>> THEN 0
                                               ELSE parseInt(reply.xBareStatus),
                                error |-> reply.error])
  IN  [status |-> response.status, ok |-> response.ok, headers |-> reply.snapshot]

NoDecoded == [status |-> 0, ok |-> FALSE, headers |-> {}]

RelayIdle ==
  /\ relayPc = "idle"
  /\ relayRequest = NoRequest
  /\ upstream = NoUpstream
  /\ relayReply = NoReply
  /\ decoded = NoDecoded

\* ---------------------------------------------------------------------------
\* The WebSocket tunnel of a relay (edge/src/websocket.js): the caller-facing
\* socket clientWs, the socket targetWs to the target, and the handlers
\* connectToTarget registers on both.
\* ---------------------------------------------------------------------------

\* Close codes and reasons either side puts into its close frame.
CloseCodes == {1000, 1001, 4000}
CloseReasons == {"", "bye"}

NoClose == [code |-> 0, reason |-> ""]

\* The close event of a peer whose close frame carried no status code, as
\* after close() without arguments: event.code is 1005, event.reason empty.
NoStatusClosure == [code |-> 1005, reason |-> "", clean |-> TRUE]

\* A close event: clean when the peer sent a close frame, with a code and a
\* reason or without a status, otherwise the event that follows an error.
CloseEvents ==
  {[code |-> c, reason |-> r, clean |-> TRUE] : c \in CloseCodes, r \in CloseReasons}
    \cup {NoStatusClosure}
AbnormalClosure == [code |-> 1006, reason |-> "", clean |-> FALSE]
NoEvent == [code |-> 0, reason |-> "", clean |-> FALSE]

\* A socket: the implementation behind it, its readyState, the arguments of
\* the close() call the relay made on it, and the close event dispatched on
\* it.  Both sockets of the relay are made by the Workers runtime, which
\* WebSocketPair belongs to.
NewSocket(state, api) ==
  [api |-> api, readyState |-> state, closeCall |-> NoClose, closeEvent |-> NoEvent]

\* A handler that calls close() without the event's code and reason: the
\* peer is closed with the default code.
closeArgsDropped(event) == [code |-> 1000, reason |-> ""]

\* The arguments the close handlers pass on: event.code, event.reason.
closeArgs(event) == [code |-> event.code, reason |-> event.reason]

\* The codes close(code, reason) takes; with any other code the call throws
\* before it looks at the socket.  The WHATWG interface takes 1000 and the
\* codes 3000 to 4999; the Workers runtime also takes the codes of the
\* protocol that a peer may send.  The codes 1005 and 1006, which no close
\* frame may carry, are taken by neither.
validCloseCode(api, code) ==
  IF api = "whatwg" THEN code = 1000 \/ code \in 3000..4999
  ELSE code \in 1000..4999 /\ code \notin {1004, 1005, 1006, 1015}

\* ws.close(code, reason): throws on a code it does not take, which ends the
\* listener that made the call and leaves the socket as it was; otherwise
\* starts the closing handshake unless the socket is already closing or
\* closed.
wsClose(ws, args) ==
  IF ~validCloseCode(ws.api, args.code) THEN ws
  ELSE IF ws.readyState \in {"CLOSING", "CLOSED"} THEN ws
  ELSE [ws EXCEPT !.readyState = "CLOSING", !.closeCall = args]

\* The dispatch of a close event on a socket.
wsClosed(ws, event) == [ws EXCEPT !.readyState = "CLOSED", !.closeEvent = event]

\* An 'error' listener that leaves the caller-facing socket alone.
ignoreTargetError(ws) == ws

\* The 'error' listener of targetWs on the caller-facing socket:
\* clientWs.close(1011, 'Target connection failed').
closeOnTargetError(ws) == wsClose(ws, [code |-> 1011, reason |-> "Target connection failed"])

\* targetWs.close() without arguments, which no close(code, reason) can be
\* taken for as 1005 is no code close() takes, and a target socket on which
\* it was called before the connection opened.
NoArgs == [code |-> 1005, reason |-> ""]
Aborted(ws) == ws.readyState = "CLOSING" /\ ws.closeCall = NoArgs /\ ws.closeEvent = NoEvent

\* Frames sent on to the caller and to the target, and the number of frames
\* the message handlers did not send on.
NoFrames == [toClient |-> <<>>, toTarget |-> <<>>, dropped |-> 0, received |-> <<>>]
FrameCount == Len(frames.received)

\* A 'message' event as the runtime raised it: the socket it came from, its
\* data, and whether the other socket was open at that moment.
Received(from, data, readyState) ==
  [from |-> from, data |-> data, open |-> readyState = "OPEN"]

\* A listener that calls send twice.
forwardMessageTwice(frs, to, data, readyState) ==
  IF readyState = "OPEN"
  THEN [frs EXCEPT ![to] = Append(Append(@, data), data)]
  ELSE [frs EXCEPT !.dropped = @ + 1]

\* The 'message' listener of one socket: event.data is sent on the other
\* socket if that one is open, and nothing is done otherwise.
forwardMessage(frs, to, data, readyState) ==
  IF readyState = "OPEN"
  THEN [frs EXCEPT ![to] = Append(@, data)]
  ELSE [frs EXCEPT !.dropped = @ + 1]
FrameData == {"ping", "pong"}

TunnelIdle ==
  /\ tunnelPc = "idle"
  /\ targetWs = NewSocket("NONE", "workers")
  /\ clientWs = NewSocket("NONE", "workers")
  /\ pending = [target |-> NoEvent, client |-> NoEvent]
  /\ frames = NoFrames

\* ---------------------------------------------------------------------------
\* The URL codec of the client (client/src/bare-fetch.js).  A string is the
\* sequence of its UTF-16 code units; a base64 text is the sequence of the
\* indices of its characters in the base64 alphabet, 64 standing for '='.
\* ---------------------------------------------------------------------------

\* a ^ b on non-negative integers
RECURSIVE bitXor(_, _)
bitXor(a, b) ==
  IF a = 0 THEN b
  ELSE IF b = 0 THEN a
  ELSE (((a % 2) + (b % 2)) % 2) + 2 * bitXor(a \div 2, b \div 2)

\* The default of the parameter key of xor.
XorKey == 2

\* xor(str, key)
xor(str, key) == [i \in 1..Len(str) |-> bitXor(str[i], key) % 65536]

\* The base64 text of a sequence of bytes.
RECURSIVE toBase64(_)
toBase64(bytes) ==
  IF Len(bytes) = 0 THEN <<>>
  ELSE IF Len(bytes) = 1
  THEN <<bytes[1] \div 4, (bytes[1] % 4) * 16, 64, 64>>
  ELSE IF Len(bytes) = 2
  THEN <<bytes[1] \div 4, (bytes[1] % 4) * 16 + (bytes[2] \div 16), (bytes[2] % 16) * 4, 64>>
  ELSE <<bytes[1] \div 4, (bytes[1] % 4) * 16 + (bytes[2] \div 16),
         (bytes[2] % 16) * 4 + (bytes[3] \div 64), bytes[3] % 64>>
       \o toBase64(SubSeq(bytes, 4, Len(bytes)))

\* The bytes of a base64 text with padding.
RECURSIVE fromBase64(_)
fromBase64(text) ==
  IF Len(text) < 4 THEN <<>>
  ELSE LET b1 == text[1] * 4 + (text[2] \div 16)
           b2 == (text[2] % 16) * 16 + (text[3] \div 4)
           b3 == (text[3] % 4) * 64 + text[4]
       IN  IF text[3] = 64 THEN <<b1>>
           ELSE IF text[4] = 64 THEN <<b1, b2>>
           ELSE <<b1, b2, b3>> \o fromBase64(SubSeq(text, 5, Len(text)))

\* What a call returns or throws.
CodecReturns(value) == [threw |-> "none", value |-> value]
CodecThrows(error) == [threw |-> error, value |-> <<>>]

\* btoa(str): throws on a code unit above 255.
btoa(str) ==
  IF \E i \in 1..Len(str) : str[i] > 255
  THEN CodecThrows("InvalidCharacterError")
  ELSE CodecReturns(toBase64(str))

\* Buffer.from(str, 'binary'): the low byte of every code unit.
bufferFromBinary(str) == [i \in 1..Len(str) |-> str[i] % 256]

\* Where the codec runs: btoa and atob are functions, or only Buffer is there.
Platforms == {"btoa", "Buffer"}

\* encodeUrl(url)
encodeUrl(url, platform) ==
  LET xored == xor(url, XorKey)
  IN  IF platform = "btoa" THEN btoa(xored)
      ELSE CodecReturns(toBase64(bufferFromBinary(xored)))

\* decodeUrl(encoded): atob and Buffer.from(encoded, 'base64').toString('binary')
\* give the same string for the text encodeUrl returns.
decodeUrl(encoded, platform) == CodecReturns(xor(fromBase64(encoded), XorKey))

\* The characters after the origin of a URL string: a, ~, e acute, y
\* diaeresis (all below 256) and the Greek letter pi (960).
UrlCodeUnits == {97, 126, 233, 255, 960}

\* "http://a/"
UrlOrigin == <<104, 116, 116, 112, 58, 47, 47, 97, 47>>

RECURSIVE Tails(_)
Tails(n) ==
  IF n = 0 THEN {<<>>}
  ELSE Tails(n - 1) \cup {Append(t, c) : t \in {x \in Tails(n - 1) : Len(x) = n - 1},
                                         c \in UrlCodeUnits}

\* The URL strings handed to encodeUrl.
UrlStrings == {UrlOrigin \o t : t \in Tails(MaxTailLen)}

NoCodec == [pc |-> "idle", platform |-> "none", url |-> <<>>, token |-> <<>>,
            decoded |-> <<>>, threw |-> "none"]

\* ---------------------------------------------------------------------------
\* The headers of the target-facing WebSocket (edge/src/websocket.js).
\* ---------------------------------------------------------------------------

\* The names connectToTarget skips, compared in lower case.
SkippedHeaders ==
  {"host", "connection", "upgrade", "sec-websocket-key", "sec-websocket-version",
   "sec-websocket-extensions"}

\* The names of the headers in the x-bare-headers map of an upgrade request,
\* in the spelling of the request.
SidecarHeaderNames ==
  {"Host", "connection", "Upgrade", "Sec-WebSocket-Key", "sec-websocket-version",
   "sec-websocket-extensions", "Sec-WebSocket-Protocol", "Cookie", "user-agent",
   "__proto__"}

\* The own keys an object literal has after the assignments obj[key] = value
\* for the keys given: the assignment to __proto__ goes to the prototype
\* setter and adds no key.
assignedKeys(keys) == keys \ {"__proto__"}

\* The loop of connectToTarget that builds wsHeaders: every entry whose name
\* in lower case is not skipped is assigned with the name and value it has.
buildWsHeaders(headers) ==
  assignedKeys({key \in headers : toLowerCase(key) \notin SkippedHeaders})

NoHandshake == [pc |-> "idle", headers |-> {}, wsHeaders |-> {}]

\* The registry client of a node before initRegistry: the module's state
\* object, the requests it has in flight (none), the registry as the node
\* reaches it, whether a heartbeat has succeeded since the registry became
\* reachable for good, and whether the node has begun to leave
\* (unregisterNode has been called).
NoHeartbeat ==
  [registered |-> FALSE, failures |-> 0, lastHeartbeatSuccess |-> FALSE, timer |-> FALSE,
   heartbeats |-> 0, registrations |-> 0, unregistrations |-> 0, reachable |-> TRUE,
   stable |-> FALSE, beatSinceStable |-> FALSE, leaving |-> FALSE]

\* The number of failures at which sendHeartbeat registers the node again.
ReRegisterAfter == 5

NoCancelled == [fetches |-> 0, url |-> NoServer, count |-> 0]

\* The registries an application points its Discovery at; the first one is
\* the registryUrl option.
RegistryUrls == {"https://registry.one/nodes", "https://registry.two/nodes"}
FirstRegistry == [url |-> "https://registry.one/nodes", unused |-> FALSE]

NodeIdle ==
  /\ handshake = NoHandshake
  /\ heartbeat = NoHeartbeat
  /\ cancelled = NoCancelled
  /\ registry = FirstRegistry

\* No URL is being encoded, and the client's strategy option is the one its
\* constructor handed to the pool.
LibIdle ==
  /\ codec = NoCodec
  /\ clientOptions = [strategy |-> poolOptions.strategy]
  /\ NodeIdle

\* ---------------------------------------------------------------------------
\* The registry discovery of the client (client/src/discovery.js).
\* ---------------------------------------------------------------------------

\* The url field of a directory record: absent, a number, or a string.
RecordUrls ==
  {[type |-> "undefined", value |-> NoServer],
   [type |-> "number", value |-> NoServer],
   [type |-> "string", value |-> Url("", 0)],
   [type |-> "string", value |-> Url("not a url", 0)],
   [type |-> "string", value |-> Url(Nodes[1], 0)],
   [type |-> "string", value |-> Url(Nodes[2], 1)]}

\* The elements of a directory's node list: null, or an object with a url field.
DirectoryRecords ==
  {[isObject |-> FALSE, url |-> [type |-> "undefined", value |-> NoServer]]}
  \cup {[isObject |-> TRUE, url |-> u] : u \in RecordUrls}

\* new URL(text) succeeds: the text is an absolute URL.
parsesAsUrl(u) == u.text \in NodeSet

\* A validation that only asks for a url field.
isValidNodeUnparsed(node) == node.isObject /\ node.url.type # "undefined"

\* Discovery.#isValidNode
isValidNode(node) ==
  /\ node.isObject
  /\ node.url.type = "string"
  /\ node.url.value.text # ""
  /\ parsesAsUrl(node.url.value)

\* Discovery.#normalizeNode, by the url it keeps.
normalizeNode(node) == [url |-> node.url.value]

\* array.filter(isValidNode).map(normalizeNode)
RECURSIVE validatedNodes(_)
validatedNodes(records) ==
  IF records = <<>> THEN <<>>
  ELSE LET rest == validatedNodes(Tail(records))
       IN  IF isValidNode(Head(records))
           THEN <<normalizeNode(Head(records))>> \o rest
           ELSE rest

\* The node lists a directory sends: no record, or a record of any kind
\* followed by the record of the first node.
RecordLists ==
  {<<>>} \cup {<<r, q>> : r \in DirectoryRecords,
                          q \in {x \in DirectoryRecords :
                                   isValidNode(x) /\ x.url.value.text = Nodes[1]}}

\* What the fetch of the directory ends with: the registry URL does not
\* parse, the network fails, the status is not a success, the body is not
\* JSON, or it is JSON of one of these shapes: null, an array, an object with
\* nodes or servers, an object with neither, an object whose nodes is a string.
FailedResponses ==
  {[kind |-> k, shape |-> "none", records |-> <<>>] :
     k \in {"invalid-registry-url", "network-error", "status-500", "not-json"}}
  \cup {[kind |-> "json", shape |-> s, records |-> <<>>] : s \in {"null", "nodes-not-array"}}

ListResponses ==
  {[kind |-> "json", shape |-> "array", records |-> l] : l \in RecordLists}
  \cup {[kind |-> "json", shape |-> s, records |-> l] :
          s \in {"nodes", "servers"},
          l \in {<<r, q>> : r \in {x \in DirectoryRecords : x.url.type = "number"},
                            q \in {x \in DirectoryRecords :
                                     isValidNode(x) /\ x.url.value.text = Nodes[2]}}}
  \cup {[kind |-> "json", shape |-> "no-list", records |-> <<>>]}

RegistryResponses == FailedResponses \cup ListResponses

\* A fetchNodes without the test of response.ok: the body of an error page
\* is read as a directory without a list.
fetchedNodesAnyStatus(response) ==
  IF response.kind = "status-500" THEN [ok |-> TRUE, nodes |-> <<>>]
  ELSE IF response.kind # "json" \/ response.shape \in {"null", "nodes-not-array"}
  THEN [ok |-> FALSE, nodes |-> <<>>]
  ELSE [ok |-> TRUE, nodes |-> validatedNodes(response.records)]

\* The body of fetchNodes up to the assignment of #nodes: whether it throws,
\* and the validated list otherwise.
fetchedNodes(response) ==
  IF response.kind # "json" \/ response.shape \in {"null", "nodes-not-array"}
  THEN [ok |-> FALSE, nodes |-> <<>>]
  ELSE [ok |-> TRUE, nodes |-> validatedNodes(response.records)]

\* Listeners: the callback the client registers in #setupDiscovery, which adds
\* the nodes to the pool, and a callback of the application that throws
\* whenever it is called.
ListenerIds == {"pool", "app"}
ThrowingListeners == {"app"}

\* A fan-out that ends at the first listener that throws.
notifyListenersUntilThrow(ls, nodes) ==
  LET stop == IF \E i \in 1..Len(ls) : ls[i] \in ThrowingListeners
              THEN CHOOSE i \in 1..Len(ls) :
                     /\ ls[i] \in ThrowingListeners
                     /\ \A j \in 1..(i - 1) : ls[j] \notin ThrowingListeners
              ELSE Len(ls)
  IN  [i \in 1..stop |-> [to |-> ls[i], nodes |-> nodes]]

\* Discovery.#notifyListeners: the calls it makes, in the order of the Set.
notifyListeners(ls, nodes) ==
  [i \in 1..Len(ls) |-> [to |-> ls[i], nodes |-> nodes]]

\* Set.add and Set.delete on the listeners, kept in insertion order.
addListener(ls, id) == IF id \in Range(ls) THEN ls ELSE Append(ls, id)
deleteListener(ls, id) == SelectSeq(ls, LAMBDA l : l # id)

DefaultRefreshInterval == 300000

\* An age computed without the test for a cache never fetched.
getTimeSinceLastFetchPlain(last, t) == t - last

\* Discovery.getTimeSinceLastFetch
getTimeSinceLastFetch(last, t) == IF last = 0 THEN Infinity ELSE t - last

\* The refreshInterval the constructor of Discovery stores: the option, or
\* the default when the option is left out or 0.
refreshIntervalOption(given) == IF given # 0 THEN given ELSE DefaultRefreshInterval

\* Discovery.isCacheStale of an instance whose options hold refreshInterval;
\* maxAge 0 stands for an argument left out as well.
isCacheStale(maxAge, refreshInterval, last, t) ==
  LET threshold == IF maxAge # 0 THEN maxAge ELSE refreshInterval
  IN  getTimeSinceLastFetch(last, t) > threshold

\* How a call of fetchNodes settled: who called, what the directory sent,
\* and whether the caller saw a result, a DiscoveryError or nothing.
Settled(caller, response, result) ==
  [caller |-> caller, kind |-> response.kind, shape |-> response.shape,
   records |-> response.records, result |-> result]
NoOutcome ==
  [caller |-> "none", kind |-> "none", shape |-> "none", records |-> <<>>, result |-> "none"]

\* No call of discover is between its await and its loop.
NotAwaited == [pending |-> FALSE, nodes |-> <<>>]

DiscoveryIdle ==
  /\ awaited = NotAwaited
  /\ cacheNodes = <<>>
  /\ lastFetch = 0
  /\ refreshTimer = FALSE
  /\ listeners = <<>>
  /\ inFlight = {}
  /\ delivered = <<>>
  /\ discHist = [fetches |-> 0, sinceClear |-> FALSE, outcome |-> NoOutcome, ticks |-> 0]

\* What happened to a node between its addServer and the first state of the
\* model: nothing, one successful probe, or maxFailures failed probes in a row.
Histories == {"fresh", "fast", "down"}

RECURSIVE reportFailures(_, _, _, _, _)
reportFailures(svrs, url, t, opts, n) ==
  IF n = 0 THEN svrs
  ELSE reportFailures(reportFailure(svrs, url, t, opts), url, t, opts, n - 1)

afterHistory(svrs, url, h, opts) ==
  IF h = "fast" THEN reportSuccess(svrs, url, ProbeLatency, 0)
  ELSE IF h = "down" THEN reportFailures(svrs, url, 0, opts, opts.maxFailures)
  ELSE svrs

\* The pool after addServer(Nodes[1..n]) with the priorities prio, followed by
\* the probes of hist.
RECURSIVE initialPool(_, _, _, _)
initialPool(n, prio, hist, opts) ==
  IF n = 0 THEN <<>>
  ELSE afterHistory(addServer(initialPool(n - 1, prio, hist, opts),
                              Url(Nodes[n], 1), prio[n]),
                    Url(Nodes[n], 0), hist[n], opts)

\* Priorities given at addServer: the default for every node, or the node
\* added last preferred (priorities are read by the "priority" strategy only).
priorityProfiles(n) ==
  {[i \in 1..n |-> DefaultPriority],
   [i \in 1..n |-> IF i = n THEN 1 ELSE DefaultPriority]}

\* How long the pool has been idle since those probes when the model starts.
IdleTimes == {0, DefaultRecoveryTime}

Init ==
  /\ poolOptions \in {[strategy |-> st, maxFailures |-> DefaultMaxFailures,
                       recoveryTime |-> DefaultRecoveryTime] : st \in Strategies}
  /\ \E n \in 0..Len(Nodes) :
       \E prio \in priorityProfiles(n), hist \in [1..n -> Histories] :
         /\ poolOptions.strategy # "priority" => prio = [i \in 1..n |-> DefaultPriority]
         /\ servers = initialPool(n, prio, hist, poolOptions)
  /\ roundRobinIndex = 0
  /\ now \in IdleTimes
  /\ pc = "idle"
  /\ maxRetries = 0
  /\ targetUrl = "none"
  /\ signal = "none"
  /\ attempt = 0
  /\ attemptedServers = {}
  /\ lastError = "null"
  /\ server = NoServer
  /\ startTime = 0
  /\ outcome = Pending
  /\ attemptLog = <<>>
  /\ reportLog = <<>>
  /\ abortedAt = -1
  /\ healthyAtStart = {}
  /\ probeCount = 0
  /\ PoolApiIdle
  /\ RelayIdle
  /\ TunnelIdle
  /\ DiscoveryIdle
  /\ LibIdle

\* Date.now() advances while an attempt is in flight, until the attempt's
\* timer fires (the attempt then settles as timed out).
Tick ==
  /\ pc = "await"
  /\ now - startTime < DefaultTimeout
  /\ now + TickMs <= MaxTicks * TickMs
  /\ now' = now + TickMs
  /\ UNCHANGED <<otherVars, poolVars, fetchVars, histVars, budgetVars>>

\* ServerPool.testServer(url) settles while an attempt is in flight: a health
\* probe reports its result.
Probe ==
  /\ pc = "await"
  /\ probeCount < MaxProbes
  /\ \E i \in 1..Len(servers) :
       \/ servers' = reportSuccess(servers, servers[i].url, ProbeLatency, now)
       \/ servers' = reportFailure(servers, servers[i].url, now, poolOptions)
  /\ probeCount' = probeCount + 1
  /\ UNCHANGED <<otherVars, poolOptions, roundRobinIndex, now, fetchVars, histVars>>

\* The caller aborts options.signal while an attempt is in flight.
CallerAbort ==
  /\ pc = "await"
  /\ signal = "armed"
  /\ signal' = "aborted"
  /\ abortedAt' = Len(attemptLog)
  /\ UNCHANGED <<otherVars, poolVars, now, pc, maxRetries, targetUrl, attempt, attemptedServers,
                 lastError, server, startTime, outcome, attemptLog, reportLog,
                 healthyAtStart, budgetVars>>

\* client.fetch(url, options) is called.
FetchBegin ==
  /\ pc = "idle"
  /\ \E retries \in 0..MaxRetriesOpt, url \in TargetUrls,
        sig \in {"none", "armed", "aborted"} :
       /\ maxRetries' = effectiveRetries(retries)
       /\ targetUrl' = url
       /\ signal' = sig
       /\ abortedAt' = IF sig = "aborted" THEN 0 ELSE -1
  /\ pc' = "loop"
  /\ attempt' = 0
  /\ attemptedServers' = {}
  /\ lastError' = "null"
  /\ server' = NoServer
  /\ outcome' = Pending
  /\ attemptLog' = <<>>
  /\ reportLog' = <<>>
  /\ healthyAtStart' = {servers[i].url : i \in {j \in 1..Len(servers) : servers[j].healthy}}
  /\ UNCHANGED <<otherVars, poolVars, now, startTime, probeCount>>

\* The head of the for loop: the loop test and selectServer().
LoopHead ==
  /\ pc = "loop"
  /\ IF attempt < maxRetries
     THEN LET sel == selectServer(servers, now, poolOptions, roundRobinIndex) IN
          /\ servers' = recoverAll(servers, now, poolOptions)
          /\ roundRobinIndex' = sel.index
          /\ server' = sel.server
          /\ pc' = "search"
          /\ UNCHANGED outcome
     ELSE /\ outcome' = AllServersFailed(attemptedServers, lastError)
          /\ pc' = "done"
          /\ UNCHANGED <<servers, roundRobinIndex, server>>
  /\ UNCHANGED <<otherVars, poolOptions, now, maxRetries, targetUrl, signal, attempt,
                 attemptedServers, lastError, startTime, histVars, budgetVars>>

\* One iteration of "while (server && attemptedServers.has(server.url))".
SearchNext ==
  /\ pc = "search"
  /\ server # NoServer
  /\ server \in attemptedServers
  /\ server' = getNextServer(servers, now, poolOptions, server)
  /\ servers' = recoverAll(servers, now, poolOptions)
  /\ UNCHANGED <<otherVars, poolOptions, roundRobinIndex, now, pc, maxRetries, targetUrl, signal,
                 attempt, attemptedServers, lastError, startTime, outcome, histVars,
                 budgetVars>>

\* The search ended with no server: break, then the throw after the loop.
SearchFailed ==
  /\ pc = "search"
  /\ server = NoServer
  /\ outcome' = AllServersFailed(attemptedServers, lastError)
  /\ pc' = "done"
  /\ UNCHANGED <<otherVars, poolVars, now, maxRetries, targetUrl, signal, attempt,
                 attemptedServers, lastError, server, startTime, histVars, budgetVars>>

\* The search ended with an untried server: the attempt starts.
AttemptStart ==
  /\ pc = "search"
  /\ server # NoServer
  /\ server \notin attemptedServers
  /\ attemptedServers' = markAttempted(attemptedServers, server)
  /\ startTime' = now
  /\ attemptLog' = Append(attemptLog, server)
  /\ pc' = "await"
  /\ UNCHANGED <<otherVars, poolVars, now, maxRetries, targetUrl, signal, attempt, lastError,
                 server, outcome, reportLog, abortedAt, healthyAtStart, budgetVars>>

\* await bareFetch(...) resolves: the try block.
AttemptSucceeds ==
  /\ pc = "await"
  /\ \E r \in bareFetch(targetUrl, signal, now - startTime >= DefaultTimeout),
        latency \in LatencySamples :
       /\ ~r.threw
       /\ servers' = reportSuccess(servers, server, latency, now)
       /\ reportLog' = Append(reportLog,
                              [url |-> server, kind |-> "success",
                               latency |-> latency, code |-> "none"])
       /\ outcome' = Returned(r.response)
  /\ pc' = "done"
  /\ UNCHANGED <<otherVars, poolOptions, roundRobinIndex, now, maxRetries, targetUrl, signal,
                 attempt, attemptedServers, lastError, server, startTime, attemptLog,
                 abortedAt, healthyAtStart, budgetVars>>

\* A catch block that rethrows a cancellation before it reports.
AttemptFailsUnreported ==
  /\ pc = "await"
  /\ \E r \in bareFetch(targetUrl, signal, now - startTime >= DefaultTimeout) :
       /\ r.threw
       /\ lastError' = r.code
       /\ IF stopsRetrying(r.code, signal)
          THEN /\ outcome' = Thrown(r.code)
               /\ pc' = "done"
               /\ UNCHANGED <<attempt, servers, reportLog>>
          ELSE /\ servers' = reportFailure(servers, server, now, poolOptions)
               /\ reportLog' = Append(reportLog,
                                      [url |-> server, kind |-> "failure",
                                       latency |-> 0, code |-> r.code])
               /\ attempt' = attempt + 1
               /\ pc' = "loop"
               /\ UNCHANGED outcome
  /\ UNCHANGED <<otherVars, poolOptions, roundRobinIndex, now, maxRetries, targetUrl, signal,
                 attemptedServers, server, startTime, attemptLog, abortedAt,
                 healthyAtStart, budgetVars>>

\* await bareFetch(...) rejects: the catch block.
AttemptFails ==
  /\ pc = "await"
  /\ \E r \in bareFetch(targetUrl, signal, now - startTime >= DefaultTimeout) :
       /\ r.threw
       /\ lastError' = r.code
       /\ servers' = reportFailure(servers, server, now, poolOptions)
       /\ reportLog' = Append(reportLog,
                              [url |-> server, kind |-> "failure",
                               latency |-> 0, code |-> r.code])
       /\ IF stopsRetrying(r.code, signal)
          THEN /\ outcome' = Thrown(r.code)
               /\ pc' = "done"
               /\ UNCHANGED attempt
          ELSE /\ attempt' = attempt + 1
               /\ pc' = "loop"
               /\ UNCHANGED outcome
  /\ UNCHANGED <<otherVars, poolOptions, roundRobinIndex, now, maxRetries, targetUrl, signal,
                 attemptedServers, server, startTime, attemptLog, abortedAt,
                 healthyAtStart, budgetVars>>

FetchStep ==
  \/ LoopHead
  \/ SearchNext
  \/ SearchFailed
  \/ AttemptStart
  \/ AttemptSucceeds
  \/ AttemptFails

Next ==
  \/ Tick
  \/ Probe
  \/ CallerAbort
  \/ FetchBegin
  \/ FetchStep

Spec == Init /\ [][Next]_vars

\* The same client on a pool of nodes that were never probed.  Once fetch is
\* called its synchronous code runs on, and every attempt settles: the
\* attempt's own timer aborts a transfer that does not end by itself.
InitFresh ==
  /\ Init
  /\ now = 0
  /\ \A i \in 1..Len(servers) : servers[i] = ServerInfo(Url(Nodes[i], 0), DefaultPriority)

FairSpec == InitFresh /\ [][Next]_vars /\ WF_vars(FetchStep)

\* ---------------------------------------------------------------------------
\* One application that calls fetch again after each fetch has settled.
\* ---------------------------------------------------------------------------

\* The caller's signal fired while the attempt that is now the last one was
\* in flight.
CancelledInFlight == signal = "aborted" /\ abortedAt >= 1 /\ abortedAt = Len(attemptLog)

\* The fetch has settled (returned or thrown); the application is ready to
\* call fetch again.  The history keeps the node on which the last fetches
\* were cancelled in flight, and how many fetches in a row those are.
FetchSettled ==
  /\ pc = "done"
  /\ cancelled.fetches + 1 < MaxClientFetches
  /\ cancelled' =
       [fetches |-> cancelled.fetches + 1,
        url |-> IF CancelledInFlight THEN server ELSE NoServer,
        count |-> IF ~CancelledInFlight THEN 0
                  ELSE IF cancelled.url = server THEN cancelled.count + 1 ELSE 1]
  /\ pc' = "idle"
  /\ maxRetries' = 0
  /\ targetUrl' = "none"
  /\ signal' = "none"
  /\ attempt' = 0
  /\ attemptedServers' = {}
  /\ lastError' = "null"
  /\ server' = NoServer
  /\ startTime' = 0
  /\ outcome' = Pending
  /\ attemptLog' = <<>>
  /\ reportLog' = <<>>
  /\ abortedAt' = -1
  /\ healthyAtStart' = {}
  /\ UNCHANGED <<poolVars, now, budgetVars, poolApiVars, relayVars, tunnelVars, clientOptions,
                 codec, handshake, heartbeat, registry, discVars>>

\* A client with one or two nodes that were never probed.
CancelInit ==
  /\ InitFresh
  /\ Len(servers) \in 1..2

CancelNext ==
  \/ Tick
  \/ CallerAbort
  \/ FetchBegin
  \/ FetchStep
  \/ FetchSettled

CancelSpec == CancelInit /\ [][CancelNext]_vars

(***************************************************************************)
(* The ServerPool interface called directly (its public methods, and the   *)
(* discovery callback of the client), one call per step                    *)
(***************************************************************************)

\* The nodes the interface is called with, and the forms of their URLs.
PoolNodes == SubSeq(Nodes, 1, 2)
PoolKeys == {Url(PoolNodes[i], 0) : i \in 1..Len(PoolNodes)}
PoolSlashUrls == {Url(PoolNodes[i], 1) : i \in 1..Len(PoolNodes)}

\* The addServer calls made: addServer(url) with the default priority, and
\* addServer(url + "/", 1).
AddCalls ==
  {[url |-> u, priority |-> DefaultPriority] : u \in PoolKeys}
    \cup {[url |-> u, priority |-> 1] : u \in PoolSlashUrls}

\* The rotation the observer keeps while the healthy list is the one it was
\* observed on.
stillRotating(svrs, t) ==
  IF UrlsOf(getHealthyServers(svrs, t, poolOptions)) = rotation.healthy
  THEN rotation ELSE NoRotation

AddServer ==
  /\ callCount < MaxPoolCalls
  /\ \E call \in AddCalls :
       LET url == call.url
           priority == call.priority IN
       /\ servers' = addServer(servers, url, priority)
       /\ poolCall' = [PoolChange("addServer", normalizeUrl(url), <<normalizeUrl(url)>>)
                         EXCEPT !.priority = priority]
       /\ streak' = IF IndexOf(servers, normalizeUrl(url)) = 0
                    THEN [streak EXCEPT ![url.text] = 0] ELSE streak
       /\ rotation' = stillRotating(addServer(servers, url, priority), now)
  /\ callCount' = callCount + 1
  /\ UNCHANGED <<poolOptions, roundRobinIndex, now, clientVars, edgeVars, discVars>>

RemoveServer ==
  /\ callCount < MaxPoolCalls
  /\ \E url \in PoolSlashUrls :
       /\ servers' = removeServer(servers, url)
       /\ poolCall' = PoolChange("removeServer", normalizeUrl(url), <<>>)
       /\ streak' = [streak EXCEPT ![url.text] = 0]
       /\ rotation' = stillRotating(removeServer(servers, url), now)
  /\ callCount' = callCount + 1
  /\ UNCHANGED <<poolOptions, roundRobinIndex, now, clientVars, edgeVars, discVars>>

\* The registry's node list arrives: its first k nodes are added.
DiscoveryUpdate ==
  /\ callCount < MaxPoolCalls
  /\ \E k \in 1..Len(PoolNodes) :
       LET urls == [i \in 1..k |-> Url(PoolNodes[i], 1)]
           after == discoveryUpdate(servers, urls, 1) IN
       /\ servers' = after
       /\ poolCall' = PoolChange("discover", NoServer, [i \in 1..k |-> normalizeUrl(urls[i])])
       /\ streak' = [n \in NodeSet |->
                       IF IndexOf(servers, Url(n, 0)) = 0 THEN 0 ELSE streak[n]]
       /\ rotation' = stillRotating(after, now)
  /\ callCount' = callCount + 1
  /\ UNCHANGED <<poolOptions, roundRobinIndex, now, clientVars, edgeVars, discVars>>

ReportSuccess ==
  /\ callCount < MaxPoolCalls
  /\ \E url \in PoolKeys, latency \in LatencySamples :
       /\ servers' = reportSuccess(servers, url, latency, now)
       /\ poolCall' = PoolCall("reportSuccess", url, <<>>,
                               servers, now, poolOptions, roundRobinIndex)
       /\ streak' = [streak EXCEPT ![url.text] = 0]
       /\ rotation' = stillRotating(reportSuccess(servers, url, latency, now), now)
  /\ callCount' = callCount + 1
  /\ UNCHANGED <<poolOptions, roundRobinIndex, now, clientVars, edgeVars, discVars>>

ReportFailure ==
  /\ callCount < MaxPoolCalls
  /\ \E url \in PoolKeys :
       /\ servers' = reportFailure(servers, url, now, poolOptions)
       /\ poolCall' = PoolCall("reportFailure", url, <<>>,
                               servers, now, poolOptions, roundRobinIndex)
       /\ streak' = IF IndexOf(servers, url) = 0 THEN streak
                    ELSE [streak EXCEPT ![url.text] = @ + 1]
       /\ rotation' = stillRotating(reportFailure(servers, url, now, poolOptions), now)
  /\ callCount' = callCount + 1
  /\ UNCHANGED <<poolOptions, roundRobinIndex, now, clientVars, edgeVars, discVars>>

SelectServer ==
  /\ callCount < MaxPoolCalls
  /\ LET sel == selectServer(servers, now, poolOptions, roundRobinIndex)
         healthy == UrlsOf(getHealthyServers(servers, now, poolOptions))
         result == IF sel.server = NoServer THEN <<>> ELSE <<sel.server>> IN
     /\ servers' = recoverAll(servers, now, poolOptions)
     /\ roundRobinIndex' = sel.index
     /\ poolCall' = PoolCall("selectServer", NoServer, result,
                             servers, now, poolOptions, roundRobinIndex)
     /\ rotation' = IF rotation.healthy = healthy /\ rotation.picks # <<>>
                    THEN [rotation EXCEPT !.picks = @ \o result]
                    ELSE [healthy |-> healthy, picks |-> result]
  /\ callCount' = callCount + 1
  /\ UNCHANGED <<poolOptions, now, streak, clientVars, edgeVars, discVars>>

\* getNextServer(url) for the URL of a node of the pool (any URL when the pool
\* is empty).
GetNextServer ==
  /\ callCount < MaxPoolCalls
  /\ \E url \in IF servers = <<>> THEN {Url(Nodes[1], 1)}
                 ELSE {Url(servers[i].url.text, 1) : i \in 1..Len(servers)} :
       LET next == getNextServer(servers, now, poolOptions, url) IN
       /\ poolCall' = PoolCall("getNextServer", url,
                               IF next = NoServer THEN <<>> ELSE <<next>>,
                               servers, now, poolOptions, roundRobinIndex)
  /\ servers' = recoverAll(servers, now, poolOptions)
  /\ rotation' = stillRotating(servers, now)
  /\ callCount' = callCount + 1
  /\ UNCHANGED <<poolOptions, roundRobinIndex, now, streak, clientVars, edgeVars, discVars>>

GetHealthyServers ==
  /\ callCount < MaxPoolCalls
  /\ servers' = recoverAll(servers, now, poolOptions)
  /\ poolCall' = PoolCall("getHealthyServers", NoServer,
                          UrlsOf(getHealthyServers(servers, now, poolOptions)),
                          servers, now, poolOptions, roundRobinIndex)
  /\ rotation' = stillRotating(servers, now)
  /\ callCount' = callCount + 1
  /\ UNCHANGED <<poolOptions, roundRobinIndex, now, streak, clientVars, edgeVars, discVars>>

\* Date.now() advances between two calls, one recovery interval at a time.
PoolTick ==
  /\ now + DefaultRecoveryTime <= MaxPoolTicks * DefaultRecoveryTime
  /\ now' = now + DefaultRecoveryTime
  /\ rotation' = stillRotating(servers, now + DefaultRecoveryTime)
  /\ UNCHANGED <<poolVars, poolCall, streak, callCount, clientVars, edgeVars, discVars>>

\* A new ServerPool, of any strategy.
PoolInit ==
  /\ poolOptions \in {[strategy |-> st, maxFailures |-> DefaultMaxFailures,
                       recoveryTime |-> DefaultRecoveryTime] : st \in Strategies}
  /\ servers = <<>>
  /\ roundRobinIndex = 0
  /\ now = 0
  /\ ClientIdle
  /\ PoolApiIdle
  /\ RelayIdle
  /\ TunnelIdle
  /\ DiscoveryIdle
  /\ LibIdle

PoolNext ==
  \/ AddServer
  \/ RemoveServer
  \/ DiscoveryUpdate
  \/ ReportSuccess
  \/ ReportFailure
  \/ SelectServer
  \/ GetNextServer
  \/ GetHealthyServers
  \/ PoolTick

PoolSpec == PoolInit /\ [][PoolNext]_vars

\* ---------------------------------------------------------------------------
\* The calls of the pool that add, report, select and list, with
\* setFallbackOrder and getStats.
\* ---------------------------------------------------------------------------

\* The lists handed to setFallbackOrder: the nodes in reverse order, written
\* with a trailing slash, and a list that names the first node only.
FallbackOrders ==
  {<<Url(PoolNodes[2], 1), Url(PoolNodes[1], 1)>>, <<Url(PoolNodes[1], 0)>>}

\* setFallbackOrder(urls)
SetFallbackOrder ==
  /\ callCount < MaxPoolCalls
  /\ \E urls \in FallbackOrders :
       /\ servers' = setFallbackOrder(servers, urls, 1)
       /\ poolCall' = PoolChange("setFallbackOrder", NoServer,
                                 [i \in 1..Len(urls) |-> normalizeUrl(urls[i])])
       /\ rotation' = stillRotating(setFallbackOrder(servers, urls, 1), now)
  /\ callCount' = callCount + 1
  /\ UNCHANGED <<poolOptions, roundRobinIndex, now, streak, clientVars, edgeVars, discVars>>

\* getStats(): the healthy count comes from a call of getHealthyServers.
GetStats ==
  /\ callCount < MaxPoolCalls
  /\ servers' = recoverAll(servers, now, poolOptions)
  /\ poolCall' = PoolCall("getStats", NoServer, <<getStats(servers, now, poolOptions)>>,
                          servers, now, poolOptions, roundRobinIndex)
  /\ rotation' = stillRotating(servers, now)
  /\ callCount' = callCount + 1
  /\ UNCHANGED <<poolOptions, roundRobinIndex, now, streak, clientVars, edgeVars, discVars>>

PoolInterfaceNext ==
  \/ AddServer
  \/ ReportSuccess
  \/ ReportFailure
  \/ SelectServer
  \/ GetNextServer
  \/ GetHealthyServers
  \/ SetFallbackOrder
  \/ GetStats
  \/ PoolTick

PoolInterfaceSpec == PoolInit /\ [][PoolInterfaceNext]_vars

(***************************************************************************)
(* The selection queries on pools with a past: every pool of up to three   *)
(* nodes that addServer and earlier probes can have left behind            *)
(***************************************************************************)

\* Earlier probes of a node: none, one success measuring the smaller or the
\* larger latency sample, or maxFailures failures in a row.
SelectHistories == {"fresh", "fast", "slow", "down"}

SlowLatency == CHOOSE l \in LatencySamples : \A m \in LatencySamples : l >= m

afterProbes(svrs, url, h, opts) ==
  IF h = "slow" THEN reportSuccess(svrs, url, SlowLatency, 0)
  ELSE afterHistory(svrs, url, h, opts)

RECURSIVE probedPool(_, _, _, _)
probedPool(n, prio, hist, opts) ==
  IF n = 0 THEN <<>>
  ELSE afterProbes(addServer(probedPool(n - 1, prio, hist, opts),
                             Url(Nodes[n], 1), prio[n]),
                   Url(Nodes[n], 0), hist[n], opts)

\* Priorities given at addServer: the default for every node, or the node
\* added last or the node added first preferred.
selectProfiles(n) ==
  priorityProfiles(n) \cup {[i \in 1..n |-> IF i = 1 THEN 1 ELSE DefaultPriority]}

SelectInit ==
  /\ poolOptions \in {[strategy |-> st, maxFailures |-> DefaultMaxFailures,
                       recoveryTime |-> DefaultRecoveryTime] : st \in Strategies}
  /\ \E n \in 0..Len(Nodes) :
       \E prio \in selectProfiles(n), hist \in [1..n -> SelectHistories] :
         /\ servers = probedPool(n, prio, hist, poolOptions)
         /\ streak = [x \in NodeSet |->
                        IF \E i \in 1..n : Nodes[i] = x /\ hist[i] = "down"
                        THEN DefaultMaxFailures ELSE 0]
  /\ roundRobinIndex = 0
  /\ now = 0
  /\ ClientIdle
  /\ poolCall = NoCall
  /\ rotation = NoRotation
  /\ callCount = 0
  /\ RelayIdle
  /\ TunnelIdle
  /\ DiscoveryIdle
  /\ LibIdle

SelectNext ==
  \/ SelectServer
  \/ GetNextServer
  \/ GetHealthyServers
  \/ PoolTick

SelectSpec == SelectInit /\ [][SelectNext]_vars

\* ---------------------------------------------------------------------------
\* The client's setStrategy between selections.
\* ---------------------------------------------------------------------------

\* OpenBareClient.setStrategy(strategy): the field of the client's own
\* options is assigned; the pool and its options are not touched.
SetStrategy ==
  /\ \E strategy \in Strategies :
       /\ strategy # clientOptions.strategy
       /\ clientOptions' = [clientOptions EXCEPT !.strategy = strategy]
  /\ UNCHANGED <<poolVars, now, clientVars, poolApiVars, relayVars, tunnelVars, codec, nodeVars,
                 discVars>>

StrategyNext ==
  \/ SetStrategy
  \/ SelectServer

StrategySpec == SelectInit /\ [][StrategyNext]_vars

\* ---------------------------------------------------------------------------
\* One exchange through a relay: the request arrives, the relay rejects it or
\* fetches the target, the target answers or cannot be reached, the client
\* decodes the relay's reply.
\* ---------------------------------------------------------------------------

RelayFrozen == UNCHANGED <<poolVars, now, clientVars, poolApiVars, tunnelVars, libVars, discVars>>

\* handleBareV3 is entered with a request.
RelayReceives ==
  /\ relayPc = "idle"
  /\ \E request \in RelayRequests : relayRequest' = request
  /\ relayPc' = "received"
  /\ UNCHANGED <<upstream, relayReply, decoded>>
  /\ RelayFrozen

\* parseBareHeaders, buildTargetUrl or the protocol check throws a BareError.
RelayRejects ==
  /\ relayPc = "received"
  /\ buildTargetUrl(parseBareHeaders(relayRequest)) # "none"
  /\ relayReply' = relayReplyTo(relayRequest, upstream)
  /\ relayPc' = "answered"
  /\ UNCHANGED <<relayRequest, upstream, decoded>>
  /\ RelayFrozen

\* The fetch of the target resolves and the wrapper response is built.
UpstreamAnswers ==
  /\ relayPc = "received"
  /\ buildTargetUrl(parseBareHeaders(relayRequest)) = "none"
  /\ \E up \in Upstreams :
       /\ up.reachable
       /\ upstream' = up
       /\ relayReply' = relayReplyTo(relayRequest, up)
  /\ relayPc' = "answered"
  /\ UNCHANGED <<relayRequest, decoded>>
  /\ RelayFrozen

\* The fetch of the target rejects.
UpstreamFails ==
  /\ relayPc = "received"
  /\ buildTargetUrl(parseBareHeaders(relayRequest)) = "none"
  /\ \E up \in Upstreams :
       /\ ~up.reachable
       /\ upstream' = up
       /\ relayReply' = relayReplyTo(relayRequest, up)
  /\ relayPc' = "answered"
  /\ UNCHANGED <<relayRequest, decoded>>
  /\ RelayFrozen

\* bareFetch builds its result from the relay's reply.
ClientDecodes ==
  /\ relayPc = "answered"
  /\ decoded' = decodeReply(relayReply)
  /\ relayPc' = "decoded"
  /\ UNCHANGED <<relayRequest, upstream, relayReply>>
  /\ RelayFrozen

RelayInit ==
  /\ servers = <<>>
  /\ poolOptions = [strategy |-> "fastest", maxFailures |-> DefaultMaxFailures,
                    recoveryTime |-> DefaultRecoveryTime]
  /\ roundRobinIndex = 0
  /\ now = 0
  /\ ClientIdle
  /\ PoolApiIdle
  /\ RelayIdle
  /\ TunnelIdle
  /\ DiscoveryIdle
  /\ LibIdle

RelayNext ==
  \/ RelayReceives
  \/ RelayRejects
  \/ UpstreamAnswers
  \/ UpstreamFails
  \/ ClientDecodes

RelaySpec == RelayInit /\ [][RelayNext]_vars

\* ---------------------------------------------------------------------------
\* One WebSocket upgrade through a relay: handleWebSocketUpgrade, the events
\* on the two sockets and the handlers of connectToTarget.
\* ---------------------------------------------------------------------------

TunnelFrozen == UNCHANGED <<poolVars, now, clientVars, poolApiVars, relayVars, libVars, discVars>>

\* The requests of an upgrade: x-bare-url and the components are read as in
\* handleBareV3Request; the protocol of the URL is not checked here.
UpgradeRequests ==
  {[bareUrl |-> u, components |-> c, passStatus |-> [form |-> "absent", codes |-> <<>>]] :
     u \in BareUrls \ {"ftp://example.com/"}, c \in BOOLEAN}

\* handleWebSocketUpgrade: buildTargetUrl throws and the BareError is answered.
UpgradeRejected ==
  /\ tunnelPc = "idle"
  /\ \E request \in UpgradeRequests :
       buildTargetUrl(parseBareHeaders(request)) # "none"
  /\ tunnelPc' = "rejected"
  /\ UNCHANGED <<targetWs, clientWs, pending, frames>>
  /\ TunnelFrozen

\* handleWebSocketUpgrade: the caller-facing socket, one end of a
\* WebSocketPair, is accepted and the connection to the target is started
\* with the global WebSocket of the runtime.
UpgradeAccepted ==
  /\ tunnelPc = "idle"
  /\ \E request \in UpgradeRequests :
       buildTargetUrl(parseBareHeaders(request)) = "none"
  /\ tunnelPc' = "connecting"
  /\ clientWs' = NewSocket("OPEN", "workers")
  /\ targetWs' = NewSocket("CONNECTING", "workers")
  /\ UNCHANGED <<pending, frames>>
  /\ TunnelFrozen

\* 'open' on targetWs: connectToTarget resolves, the upgrade is answered 101.
OnTargetOpen ==
  /\ tunnelPc = "connecting"
  /\ targetWs.readyState = "CONNECTING"
  /\ pending.target = NoEvent
  /\ targetWs' = [targetWs EXCEPT !.readyState = "OPEN"]
  /\ tunnelPc' = "established"
  /\ UNCHANGED <<clientWs, pending, frames>>
  /\ TunnelFrozen

\* 'error' on targetWs: the caller-facing socket is closed with 1011 and the
\* promise rejected, unless close() threw; the socket's close event follows.
OnTargetError ==
  /\ targetWs.readyState \in {"CONNECTING", "OPEN"}
  /\ pending.target = NoEvent
  /\ clientWs' = closeOnTargetError(clientWs)
  /\ tunnelPc' = IF tunnelPc = "connecting" /\ validCloseCode(clientWs.api, 1011)
                 THEN "failed" ELSE tunnelPc
  /\ pending' = [pending EXCEPT !.target = AbnormalClosure]
  /\ UNCHANGED <<targetWs, frames>>
  /\ TunnelFrozen

\* The timer of connectToTarget fires while the target is still connecting,
\* whether or not the promise has been settled by an 'error' before:
\* targetWs.close() without arguments, inside which the runtime raises
\* 'error' on the socket whose attempt it gives up, so that the 'error'
\* listener closes the caller-facing socket with 1011; the promise is
\* rejected.
ConnectTimeout ==
  /\ targetWs.readyState = "CONNECTING"
  /\ targetWs' = [targetWs EXCEPT !.readyState = "CLOSING", !.closeCall = NoArgs]
  /\ clientWs' = closeOnTargetError(clientWs)
  /\ tunnelPc' = "failed"
  /\ UNCHANGED <<pending, frames>>
  /\ TunnelFrozen

\* The close event of the attempt the timer gave up arrives.
AbortedTargetCloses ==
  /\ Aborted(targetWs)
  /\ pending.target = NoEvent
  /\ pending' = [pending EXCEPT !.target = AbnormalClosure]
  /\ UNCHANGED <<tunnelPc, targetWs, clientWs, frames>>
  /\ TunnelFrozen

\* The target closes the connection, with a code and a reason or without a
\* status.
TargetCloses ==
  /\ targetWs.readyState = "OPEN"
  /\ pending.target = NoEvent
  /\ \E event \in CloseEvents : pending' = [pending EXCEPT !.target = event]
  /\ UNCHANGED <<tunnelPc, targetWs, clientWs, frames>>
  /\ TunnelFrozen

\* The target answers the close the relay started.
TargetAcknowledges ==
  /\ targetWs.readyState = "CLOSING"
  /\ targetWs.closeCall # NoArgs
  /\ pending.target = NoEvent
  /\ pending' = [pending EXCEPT !.target = [code |-> targetWs.closeCall.code,
                                            reason |-> targetWs.closeCall.reason,
                                            clean |-> TRUE]]
  /\ UNCHANGED <<tunnelPc, targetWs, clientWs, frames>>
  /\ TunnelFrozen

\* 'close' on targetWs: clientWs.close(event.code, event.reason).
OnTargetClose ==
  /\ pending.target # NoEvent
  /\ targetWs' = wsClosed(targetWs, pending.target)
  /\ clientWs' = wsClose(clientWs, closeArgs(pending.target))
  /\ pending' = [pending EXCEPT !.target = NoEvent]
  /\ UNCHANGED <<tunnelPc, frames>>
  /\ TunnelFrozen

\* The caller closes its socket, with a code and a reason or without a
\* status.
CallerCloses ==
  /\ clientWs.readyState = "OPEN"
  /\ pending.client = NoEvent
  /\ \E event \in CloseEvents : pending' = [pending EXCEPT !.client = event]
  /\ UNCHANGED <<tunnelPc, targetWs, clientWs, frames>>
  /\ TunnelFrozen

\* The caller answers the close the relay started.
CallerAcknowledges ==
  /\ clientWs.readyState = "CLOSING"
  /\ pending.client = NoEvent
  /\ pending' = [pending EXCEPT !.client = [code |-> clientWs.closeCall.code,
                                            reason |-> clientWs.closeCall.reason,
                                            clean |-> TRUE]]
  /\ UNCHANGED <<tunnelPc, targetWs, clientWs, frames>>
  /\ TunnelFrozen

\* 'close' on clientWs: targetWs.close(event.code, event.reason) if the
\* target socket is open.
OnClientClose ==
  /\ pending.client # NoEvent
  /\ clientWs' = wsClosed(clientWs, pending.client)
  /\ targetWs' = IF targetWs.readyState = "OPEN"
                 THEN wsClose(targetWs, closeArgs(pending.client))
                 ELSE targetWs
  /\ pending' = [pending EXCEPT !.client = NoEvent]
  /\ UNCHANGED <<tunnelPc, frames>>
  /\ TunnelFrozen

\* 'error' on clientWs: targetWs.close(1011, 'Client error') if the target
\* socket is open; the socket's close event follows.
OnClientError ==
  /\ clientWs.readyState = "OPEN"
  /\ pending.client = NoEvent
  /\ targetWs' = IF targetWs.readyState = "OPEN"
                 THEN wsClose(targetWs, [code |-> 1011, reason |-> "Client error"])
                 ELSE targetWs
  /\ pending' = [pending EXCEPT !.client = AbnormalClosure]
  /\ UNCHANGED <<tunnelPc, clientWs, frames>>
  /\ TunnelFrozen

\* 'message' on targetWs: sent on if the caller-facing socket is open.
OnTargetMessage ==
  /\ targetWs.readyState = "OPEN"
  /\ pending.target = NoEvent
  /\ FrameCount < MaxFrames
  /\ \E data \in FrameData :
       frames' = [forwardMessage(frames, "toClient", data, clientWs.readyState)
                    EXCEPT !.received = Append(@, Received("target", data, clientWs.readyState))]
  /\ UNCHANGED <<tunnelPc, targetWs, clientWs, pending>>
  /\ TunnelFrozen

\* 'message' on clientWs: sent on if the target socket is open.
OnClientMessage ==
  /\ clientWs.readyState = "OPEN"
  /\ pending.client = NoEvent
  /\ FrameCount < MaxFrames
  /\ \E data \in FrameData :
       frames' = [forwardMessage(frames, "toTarget", data, targetWs.readyState)
                    EXCEPT !.received = Append(@, Received("client", data, targetWs.readyState))]
  /\ UNCHANGED <<tunnelPc, targetWs, clientWs, pending>>
  /\ TunnelFrozen

TunnelInit ==
  /\ servers = <<>>
  /\ poolOptions = [strategy |-> "fastest", maxFailures |-> DefaultMaxFailures,
                    recoveryTime |-> DefaultRecoveryTime]
  /\ roundRobinIndex = 0
  /\ now = 0
  /\ ClientIdle
  /\ PoolApiIdle
  /\ RelayIdle
  /\ TunnelIdle
  /\ DiscoveryIdle
  /\ LibIdle

TunnelNext ==
  \/ UpgradeRejected
  \/ UpgradeAccepted
  \/ OnTargetOpen
  \/ OnTargetError
  \/ ConnectTimeout
  \/ AbortedTargetCloses
  \/ TargetCloses
  \/ TargetAcknowledges
  \/ OnTargetClose
  \/ CallerCloses
  \/ CallerAcknowledges
  \/ OnClientClose
  \/ OnClientError
  \/ OnTargetMessage
  \/ OnClientMessage

TunnelSpec == TunnelInit /\ [][TunnelNext]_vars

\* The runtime dispatches every event it has received: a close event that is
\* pending on a socket reaches its handler.
TunnelFairSpec ==
  TunnelInit /\ [][TunnelNext]_vars /\ WF_vars(OnTargetClose) /\ WF_vars(OnClientClose)

\* ---------------------------------------------------------------------------
\* A Discovery instance and the client that owns it: fetchNodes called by the
\* application, by the refresh timer and by OpenBareClient.discover, with
\* listeners coming and going.
\* ---------------------------------------------------------------------------

DiscFrozen == UNCHANGED <<poolOptions, roundRobinIndex, clientVars, poolApiVars, edgeVars>>

\* What a call that sets the registry URL leaves alone outside Discovery.
RegistryFrozen ==
  UNCHANGED <<poolOptions, roundRobinIndex, clientVars, poolApiVars, relayVars, tunnelVars,
              clientOptions, codec, handshake, heartbeat, cancelled>>

Callers == {"explicit", "auto", "discover"}

\* No continuation of discover is queued.  The continuation is a job of the
\* event that settled the fetch: it runs before the event loop takes the
\* next timer or network event, while a call by the application, which is
\* not tied to an event of its own, may come before it.
NextEvent == ~awaited.pending

\* The pool after a listener call or the loop of discover added the nodes.
poolAfter(svrs, nodes, adds) ==
  IF adds THEN discoveryUpdate(svrs, UrlsOf(nodes), 1) ELSE svrs

\* onUpdate(callback)
Subscribe ==
  /\ \E id \in ListenerIds :
       /\ id \notin Range(listeners)
       /\ listeners' = addListener(listeners, id)
  /\ UNCHANGED <<servers, now, cacheNodes, lastFetch, refreshTimer, inFlight, delivered, discHist,
                 awaited>>
  /\ DiscFrozen

\* The handle onUpdate returned is called.
Unsubscribe ==
  /\ \E id \in Range(listeners) :
       /\ listeners' = deleteListener(listeners, id)
  /\ UNCHANGED <<servers, now, cacheNodes, lastFetch, refreshTimer, inFlight, delivered, discHist,
                 awaited>>
  /\ DiscFrozen

StartAutoRefresh ==
  /\ ~refreshTimer
  /\ refreshTimer' = TRUE
  /\ UNCHANGED <<servers, now, cacheNodes, lastFetch, listeners, inFlight, delivered, discHist,
                 awaited>>
  /\ DiscFrozen

StopAutoRefresh ==
  /\ refreshTimer
  /\ refreshTimer' = FALSE
  /\ UNCHANGED <<servers, now, cacheNodes, lastFetch, listeners, inFlight, delivered, discHist,
                 awaited>>
  /\ DiscFrozen

\* fetchNodes is called and reaches its await: by the application, by the
\* callback of the refresh timer, or by discover.
\* discover() without an argument goes straight to fetchNodes.
FetchNodes ==
  /\ \E caller \in Callers :
       /\ caller \notin inFlight
       /\ caller = "auto" => refreshTimer /\ NextEvent
       /\ caller = "discover" => ~awaited.pending
       /\ inFlight' = inFlight \cup {caller}
  /\ discHist.fetches < MaxFetches
  /\ discHist' = [discHist EXCEPT !.fetches = @ + 1]
  /\ registry' = [registry EXCEPT !.unused = FALSE]
  /\ UNCHANGED <<servers, now, cacheNodes, lastFetch, refreshTimer, listeners, delivered, awaited>>
  /\ RegistryFrozen

\* discover(registryUrl) on a client that has a Discovery: setRegistryUrl
\* first, which assigns the URL and clears the cache, then fetchNodes.
DiscoverAt ==
  /\ "discover" \notin inFlight
  /\ ~awaited.pending
  /\ discHist.fetches < MaxFetches
  /\ \E url \in RegistryUrls :
       registry' = [url |-> url, unused |-> FALSE]
  /\ cacheNodes' = <<>>
  /\ lastFetch' = 0
  /\ inFlight' = inFlight \cup {"discover"}
  /\ discHist' = [discHist EXCEPT !.fetches = @ + 1, !.sinceClear = FALSE]
  /\ UNCHANGED <<servers, now, refreshTimer, listeners, delivered, awaited>>
  /\ RegistryFrozen

\* The fetch of a caller settles with a usable list: #nodes and #lastFetch
\* are assigned and the listeners called, the listener of the client adding
\* the nodes to the pool; fetchNodes returns the array.  When the caller is
\* discover, its loop over that array runs after the await, as a step of
\* its own.
FetchSucceeds ==
  /\ NextEvent
  /\ \E caller \in inFlight, response \in RegistryResponses :
       LET fetched == fetchedNodes(response)
       IN  /\ fetched.ok
           /\ cacheNodes' = fetched.nodes
           /\ lastFetch' = now
           /\ delivered' = notifyListeners(listeners, fetched.nodes)
           /\ servers' = poolAfter(servers, fetched.nodes, "pool" \in Range(listeners))
           /\ inFlight' = inFlight \ {caller}
           /\ awaited' = IF caller = "discover"
                         THEN [pending |-> TRUE, nodes |-> fetched.nodes]
                         ELSE awaited
           /\ discHist' = [discHist EXCEPT !.sinceClear = TRUE,
                                            !.outcome = Settled(caller, response, "resolved")]
  /\ UNCHANGED <<now, refreshTimer, listeners>>
  /\ DiscFrozen

\* discover resumes after its await: addServer for every node of the array
\* fetchNodes returned.
DiscoverResumes ==
  /\ awaited.pending
  /\ servers' = poolAfter(servers, awaited.nodes, TRUE)
  /\ awaited' = NotAwaited
  /\ UNCHANGED <<now, cacheNodes, lastFetch, refreshTimer, listeners, inFlight, delivered,
                 discHist>>
  /\ DiscFrozen

\* The fetch of a caller throws: fetchNodes rejects with a DiscoveryError,
\* which the callback of the refresh timer catches.
FetchFails ==
  /\ NextEvent
  /\ \E caller \in inFlight, response \in RegistryResponses :
       /\ ~fetchedNodes(response).ok
       /\ inFlight' = inFlight \ {caller}
       /\ discHist' = [discHist EXCEPT !.outcome =
                         Settled(caller, response,
                                 IF caller = "auto" THEN "swallowed" ELSE "DiscoveryError")]
  /\ UNCHANGED <<servers, now, cacheNodes, lastFetch, refreshTimer, listeners, delivered, awaited>>
  /\ DiscFrozen

\* clearCache(), called by the application or by setRegistryUrl(url).
ClearCache ==
  /\ cacheNodes' = <<>>
  /\ lastFetch' = 0
  /\ discHist' = [discHist EXCEPT !.sinceClear = FALSE]
  /\ UNCHANGED <<servers, now, refreshTimer, listeners, inFlight, delivered, awaited>>
  /\ DiscFrozen

\* The clock advances by one refresh interval.
DiscTick ==
  /\ NextEvent
  /\ discHist.ticks < MaxDiscTicks
  /\ now' = now + DefaultRefreshInterval
  /\ discHist' = [discHist EXCEPT !.ticks = @ + 1]
  /\ UNCHANGED <<servers, cacheNodes, lastFetch, refreshTimer, listeners, inFlight, delivered,
                 awaited>>
  /\ DiscFrozen

\* A client without nodes and a Discovery just constructed; Date.now() is
\* some time after the epoch.
DiscoveryInit ==
  /\ servers = <<>>
  /\ poolOptions = [strategy |-> "fastest", maxFailures |-> DefaultMaxFailures,
                    recoveryTime |-> DefaultRecoveryTime]
  /\ roundRobinIndex = 0
  /\ now = DefaultRefreshInterval
  /\ ClientIdle
  /\ PoolApiIdle
  /\ RelayIdle
  /\ TunnelIdle
  /\ DiscoveryIdle
  /\ LibIdle

DiscoveryNext ==
  \/ Subscribe
  \/ Unsubscribe
  \/ StartAutoRefresh
  \/ StopAutoRefresh
  \/ FetchNodes
  \/ FetchSucceeds
  \/ DiscoverResumes
  \/ FetchFails
  \/ ClearCache
  \/ DiscTick

DiscoverySpec == DiscoveryInit /\ [][DiscoveryNext]_vars

\* ---------------------------------------------------------------------------
\* An application that owns a Discovery and points it at another registry
\* while fetches may be in flight.
\* ---------------------------------------------------------------------------

\* setRegistryUrl(url): the URL is assigned and the cache cleared.  The
\* fetches in flight are not touched.
SetRegistryUrl ==
  /\ \E url \in RegistryUrls :
       registry' = [url |-> url, unused |-> TRUE]
  /\ cacheNodes' = <<>>
  /\ lastFetch' = 0
  /\ discHist' = [discHist EXCEPT !.sinceClear = FALSE]
  /\ UNCHANGED <<servers, now, refreshTimer, listeners, inFlight, delivered, awaited>>
  /\ RegistryFrozen

RegistryNext ==
  \/ Subscribe
  \/ Unsubscribe
  \/ StartAutoRefresh
  \/ StopAutoRefresh
  \/ FetchNodes
  \/ DiscoverAt
  \/ FetchSucceeds
  \/ DiscoverResumes
  \/ FetchFails
  \/ ClearCache
  \/ DiscTick
  \/ SetRegistryUrl

RegistrySpec == DiscoveryInit /\ [][RegistryNext]_vars

\* ---------------------------------------------------------------------------
\* One URL through encodeUrl and then decodeUrl.
\* ---------------------------------------------------------------------------

CodecFrozen ==
  UNCHANGED <<poolVars, now, clientVars, poolApiVars, relayVars, tunnelVars, clientOptions,
              nodeVars, discVars>>

\* token = encodeUrl(url)
EncodeUrl ==
  /\ codec.pc = "input"
  /\ LET encoded == encodeUrl(codec.url, codec.platform)
     IN  codec' = IF encoded.threw # "none"
                  THEN [codec EXCEPT !.pc = "threw", !.threw = encoded.threw]
                  ELSE [codec EXCEPT !.pc = "encoded", !.token = encoded.value]
  /\ CodecFrozen

\* decoded = decodeUrl(token)
DecodeUrl ==
  /\ codec.pc = "encoded"
  /\ LET result == decodeUrl(codec.token, codec.platform)
     IN  codec' = [codec EXCEPT !.pc = "decoded", !.decoded = result.value]
  /\ CodecFrozen

CodecInit ==
  /\ poolOptions = [strategy |-> "fastest", maxFailures |-> DefaultMaxFailures,
                    recoveryTime |-> DefaultRecoveryTime]
  /\ servers = <<>>
  /\ roundRobinIndex = 0
  /\ now = 0
  /\ ClientIdle
  /\ PoolApiIdle
  /\ RelayIdle
  /\ TunnelIdle
  /\ DiscoveryIdle
  /\ clientOptions = [strategy |-> poolOptions.strategy]
  /\ NodeIdle
  /\ \E u \in UrlStrings, p \in Platforms :
       codec = [NoCodec EXCEPT !.pc = "input", !.url = u, !.platform = p]

CodecNext == EncodeUrl \/ DecodeUrl

CodecSpec == CodecInit /\ [][CodecNext]_vars

\* ---------------------------------------------------------------------------
\* One upgrade request up to the opening of the target-facing socket.
\* ---------------------------------------------------------------------------

\* connectToTarget builds wsHeaders and calls new WebSocket(targetUrl, ...).
ConnectToTarget ==
  /\ handshake.pc = "accepted"
  /\ handshake' = [handshake EXCEPT !.pc = "connecting",
                                    !.wsHeaders = buildWsHeaders(handshake.headers)]
  /\ UNCHANGED <<poolVars, now, clientVars, poolApiVars, relayVars, tunnelVars, clientOptions,
                 codec, heartbeat, cancelled, registry, discVars>>

\* An upgrade request with any set of sidecar headers has been accepted.
HandshakeInit ==
  /\ poolOptions = [strategy |-> "fastest", maxFailures |-> DefaultMaxFailures,
                    recoveryTime |-> DefaultRecoveryTime]
  /\ servers = <<>>
  /\ roundRobinIndex = 0
  /\ now = 0
  /\ ClientIdle
  /\ PoolApiIdle
  /\ RelayIdle
  /\ TunnelIdle
  /\ DiscoveryIdle
  /\ codec = NoCodec
  /\ clientOptions = [strategy |-> poolOptions.strategy]
  /\ heartbeat = NoHeartbeat
  /\ cancelled = NoCancelled
  /\ registry = FirstRegistry
  /\ \E headers \in SUBSET SidecarHeaderNames :
       handshake = [NoHandshake EXCEPT !.pc = "accepted", !.headers = headers]

HandshakeNext == ConnectToTarget

HandshakeSpec == HandshakeInit /\ [][HandshakeNext]_vars

\* ---------------------------------------------------------------------------
\* The registry client of a relay node (server/register.js) once the node
\* has registered and startHeartbeat has set the interval.
\* ---------------------------------------------------------------------------

HeartbeatFrozen ==
  UNCHANGED <<poolVars, now, clientVars, poolApiVars, relayVars, tunnelVars, clientOptions,
              codec, handshake, cancelled, registry, discVars>>

\* The body of registerNode after its request was answered with a 2xx
\* status and a JSON object as body ("object"), with a 2xx status and the
\* JSON value null as body ("null"), with a 2xx status and a body that is
\* not JSON ("text"), or with an error status or not at all ("refused").  A
\* body that is not JSON makes response.json() throw before the state is touched; with
\* the body null, state.registered is set and reading data.id throws before
\* the failure counter is reset; the catch block counts a failure each time.
registerNode(st, answer) ==
  CASE answer = "object" -> [st EXCEPT !.registered = TRUE, !.failures = 0]
    [] answer = "null"   -> [st EXCEPT !.registered = TRUE, !.failures = @ + 1]
    [] OTHER             -> [st EXCEPT !.failures = @ + 1]

\* The body of sendHeartbeat after its request was answered, up to the
\* await of registerNode in the catch block.
heartbeatAnswered(st, ok) ==
  IF ok THEN [st EXCEPT !.lastHeartbeatSuccess = TRUE, !.failures = 0]
  ELSE LET failed == [st EXCEPT !.failures = @ + 1, !.lastHeartbeatSuccess = FALSE]
       IN  IF failed.failures >= ReRegisterAfter
           THEN [failed EXCEPT !.registered = FALSE, !.registrations = @ + 1]
           ELSE failed

\* The interval fires and sendHeartbeat posts a heartbeat.  When the node is
\* not registered sendHeartbeat returns at once and nothing changes.
HeartbeatTick ==
  /\ heartbeat.timer
  /\ heartbeat.registered
  /\ heartbeat.heartbeats + heartbeat.registrations < MaxBeatsInFlight
  /\ heartbeat' = [heartbeat EXCEPT !.heartbeats = @ + 1]
  /\ HeartbeatFrozen

\* The registry answers a heartbeat with a 2xx status.
HeartbeatSucceeds ==
  /\ heartbeat.heartbeats > 0
  /\ heartbeat.reachable
  /\ heartbeat' = [heartbeatAnswered(heartbeat, TRUE) EXCEPT
                     !.heartbeats = @ - 1,
                     !.beatSinceStable = heartbeat.stable]
  /\ HeartbeatFrozen

\* A heartbeat is rejected, or answered with an error status.
HeartbeatFails ==
  /\ heartbeat.heartbeats > 0
  /\ ~heartbeat.reachable
  /\ heartbeat' = [heartbeatAnswered(heartbeat, FALSE) EXCEPT !.heartbeats = @ - 1]
  /\ HeartbeatFrozen

\* The registry answers the registration sendHeartbeat is waiting for with
\* a 2xx status, its body a JSON object or null.
ReRegisterSucceeds ==
  /\ heartbeat.registrations > 0
  /\ heartbeat.reachable
  /\ \E body \in {"object", "null"} :
       /\ body = "null" => heartbeat.failures < MaxFailuresCounted
       /\ heartbeat' = [registerNode(heartbeat, body) EXCEPT !.registrations = @ - 1]
  /\ HeartbeatFrozen

\* That registration is rejected, or answered with an error status, or
\* answered by something that is not the registry with a body that is not
\* JSON.
ReRegisterFails ==
  /\ heartbeat.registrations > 0
  /\ ~heartbeat.reachable
  /\ \E answer \in {"text", "refused"} :
       heartbeat' = [registerNode(heartbeat, answer) EXCEPT !.registrations = @ - 1]
  /\ HeartbeatFrozen

\* startHeartbeat(): the interval is set.  With an interval set the call
\* changes nothing.
StartHeartbeat ==
  /\ ~heartbeat.timer
  /\ heartbeat' = [heartbeat EXCEPT !.timer = TRUE]
  /\ HeartbeatFrozen

\* stopHeartbeat(): the interval is cleared.  Without an interval the call
\* changes nothing.
StopHeartbeat ==
  /\ heartbeat.timer
  /\ heartbeat' = [heartbeat EXCEPT !.timer = FALSE]
  /\ HeartbeatFrozen

\* unregisterNode() on a registered node sends its DELETE request and waits.
\* When the node is not registered the call returns at once and nothing
\* changes.
UnregisterNode ==
  /\ heartbeat.registered
  /\ heartbeat.unregistrations < MaxUnregistersInFlight
  /\ heartbeat' = [heartbeat EXCEPT !.unregistrations = @ + 1, !.leaving = TRUE]
  /\ HeartbeatFrozen

\* The DELETE request is answered, with a 2xx status or, by a registry that
\* is not reachable, with an error status: the node is not registered any
\* more either way.
UnregisterAnswered ==
  /\ heartbeat.unregistrations > 0
  /\ heartbeat' = [heartbeat EXCEPT !.registered = FALSE, !.unregistrations = @ - 1]
  /\ HeartbeatFrozen

\* The DELETE request is rejected: unregisterNode returns false and the
\* state stays as it was.
UnregisterRejected ==
  /\ heartbeat.unregistrations > 0
  /\ ~heartbeat.reachable
  /\ heartbeat' = [heartbeat EXCEPT !.unregistrations = @ - 1]
  /\ HeartbeatFrozen

\* The node loses the registry.
RegistryUnreachable ==
  /\ heartbeat.reachable
  /\ ~heartbeat.stable
  /\ heartbeat' = [heartbeat EXCEPT !.reachable = FALSE]
  /\ HeartbeatFrozen

\* The node reaches the registry again.
RegistryReachable ==
  /\ ~heartbeat.reachable
  /\ heartbeat' = [heartbeat EXCEPT !.reachable = TRUE]
  /\ HeartbeatFrozen

\* From this moment on the registry stays reachable.
RegistryStaysReachable ==
  /\ heartbeat.reachable
  /\ ~heartbeat.stable
  /\ heartbeat' = [heartbeat EXCEPT !.stable = TRUE]
  /\ HeartbeatFrozen

\* initRegistry has registered the node and started the heartbeat.
HeartbeatInit ==
  /\ poolOptions = [strategy |-> "fastest", maxFailures |-> DefaultMaxFailures,
                    recoveryTime |-> DefaultRecoveryTime]
  /\ servers = <<>>
  /\ roundRobinIndex = 0
  /\ now = 0
  /\ ClientIdle
  /\ PoolApiIdle
  /\ RelayIdle
  /\ TunnelIdle
  /\ DiscoveryIdle
  /\ codec = NoCodec
  /\ clientOptions = [strategy |-> poolOptions.strategy]
  /\ handshake = NoHandshake
  /\ cancelled = NoCancelled
  /\ registry = FirstRegistry
  /\ heartbeat = [NoHeartbeat EXCEPT !.registered = TRUE, !.timer = TRUE]

HeartbeatNext ==
  \/ HeartbeatTick
  \/ HeartbeatSucceeds
  \/ HeartbeatFails
  \/ ReRegisterSucceeds
  \/ ReRegisterFails
  \/ StartHeartbeat
  \/ StopHeartbeat
  \/ UnregisterNode
  \/ UnregisterAnswered
  \/ UnregisterRejected
  \/ RegistryUnreachable
  \/ RegistryReachable
  \/ RegistryStaysReachable

HeartbeatSpec == HeartbeatInit /\ [][HeartbeatNext]_vars

\* The interval fires as long as it is set, and every request the node has
\* made is answered or rejected in the end.
HeartbeatFairSpec ==
  /\ HeartbeatInit /\ [][HeartbeatNext]_vars
  /\ WF_vars(HeartbeatTick)
  /\ WF_vars(HeartbeatSucceeds)
  /\ WF_vars(HeartbeatFails)
  /\ WF_vars(ReRegisterSucceeds)
  /\ WF_vars(ReRegisterFails)
  /\ WF_vars(UnregisterAnswered)

(***************************************************************************)
(* Vocabulary of the properties                                            *)
(***************************************************************************)

InFetch == pc \in {"loop", "search", "await"}

\* The reports this fetch made for url.
ReportsFor(url, kind) ==
  {i \in 1..Len(reportLog) : reportLog[i].url = url /\ reportLog[i].kind = kind}

\* Healthy nodes (after the lazy-recovery evaluation at the present time)
\* that this fetch has not tried.
HealthyUntried ==
  LET healthy == getHealthyServers(servers, now, poolOptions) IN
  {healthy[i].url : i \in 1..Len(healthy)} \ attemptedServers

\* The error of the most recent attempt, "null" when there was none.
LastAttemptError ==
  IF Len(reportLog) = 0 THEN "null" ELSE reportLog[Len(reportLog)].code

FailedWithAllServersFailed ==
  pc = "done" /\ outcome.kind = "thrown" /\ outcome.code = "ALL_SERVERS_FAILED"

(***************************************************************************)
(* C1: every fetch terminates: once called, fetch reaches its end (a       *)
(* response, AllNodesFailed or the cancellation), after at most            *)
(* maxAttempts attempts; the search for an untried node does not run       *)
(* forever.                                                                *)
(***************************************************************************)
C1_FetchTerminates ==
  /\ InFetch ~> (pc = "done")
  /\ [](Len(attemptLog) <= maxRetries)

(***************************************************************************)
(* C2: three nodes, maxAttempts = 3, the two nodes selected first fail:    *)
(* the third node is attempted, and when it succeeds fetch returns its     *)
(* result after exactly 3 attempts with two failure reports (one for each  *)
(* failing node) and one success report (for the third node).              *)
(***************************************************************************)
C2_TwoFailed ==
  /\ Len(servers) = 3
  /\ maxRetries = 3
  /\ pc = "loop"
  /\ attempt = 2
  /\ signal # "aborted"

C2_ThirdReturns ==
  (Len(servers) = 3 /\ maxRetries = 3 /\ pc = "done" /\ outcome.kind = "returned"
     /\ Len(attemptLog) = 3)
    => /\ Len(reportLog) = 3
       /\ \A i \in 1..3 : reportLog[i].url = attemptLog[i]
       /\ reportLog[1].kind = "failure" /\ reportLog[2].kind = "failure"
       /\ reportLog[3].kind = "success"
       /\ Cardinality({attemptLog[i] : i \in 1..3}) = 3

C2_ThirdNodeAnswers ==
  /\ C2_TwoFailed ~> (Len(attemptLog) = 3)
  /\ []C2_ThirdReturns

(***************************************************************************)
(* C3: a successful attempt is reported to the pool exactly once, as a     *)
(* success with the measured latency, and ends the fetch at once: it is    *)
(* the last report and the last attempt, the fetch has returned, the node  *)
(* got no failure report from this fetch, and the node's record shows the  *)
(* success (healthy, no consecutive failures, a latency estimate).         *)
(***************************************************************************)
C3_SuccessReturnsAtOnce ==
  \A i \in 1..Len(reportLog) :
    reportLog[i].kind = "success" =>
      /\ i = Len(reportLog)
      /\ i = Len(attemptLog)
      /\ reportLog[i].url = attemptLog[i]
      /\ reportLog[i].latency \in LatencySamples
      /\ pc = "done"
      /\ outcome.kind = "returned"
      /\ ReportsFor(reportLog[i].url, "failure") = {}
      /\ ReportsFor(reportLog[i].url, "success") = {i}
      /\ LET k == IndexOf(servers, reportLog[i].url) IN
         k > 0 => /\ servers[k].healthy
                  /\ servers[k].failCount = 0
                  /\ servers[k].successCount >= 1
                  /\ servers[k].latency < Infinity
                  /\ servers[k].lastCheck = now

\* A fetch that returned the third node's result after two failed attempts.
C3_Witness ==
  /\ pc = "done"
  /\ outcome.kind = "returned"
  /\ Len(attemptLog) = 3
  /\ reportLog[3].kind = "success"

(***************************************************************************)
(* C4: within one fetch no node (by normalized URL) is attempted twice,    *)
(* and the number of attempts never exceeds maxAttempts.                   *)
(***************************************************************************)
C4_DistinctBoundedAttempts ==
  /\ \A i, j \in 1..Len(attemptLog) :
       i # j => normalizeUrl(attemptLog[i]) # normalizeUrl(attemptLog[j])
  /\ Len(attemptLog) <= maxRetries
  /\ maxRetries <= (IF MaxRetriesOpt > DefaultRetries THEN MaxRetriesOpt ELSE DefaultRetries)

\* A fetch that used all of its maxAttempts attempts on three different
\* nodes and has ended.
C4_Witness ==
  /\ pc = "done"
  /\ maxRetries = 3
  /\ Len(attemptLog) = 3
  /\ Cardinality(attemptedServers) = 3

(***************************************************************************)
(* C5: a node-local failure (a timeout included) is reported once as a     *)
(* failure of that node, and fetch then goes on to the next untried node   *)
(* while attempts remain; only the caller's cancellation ends the fetch    *)
(* with the attempt's own error.                                           *)
(***************************************************************************)
C5_FailuresReported ==
  /\ \A i \in 1..Len(reportLog) : reportLog[i].url = attemptLog[i]
  /\ (pc = "done" /\ outcome.kind = "thrown" /\ outcome.code # "ALL_SERVERS_FAILED")
       => signal = "aborted"

C5_FailureGoesOn ==
  /\ []C5_FailuresReported
  /\ (pc = "loop" /\ attempt > 0 /\ attempt < maxRetries /\ HealthyUntried # {})
       ~> (pc = "await")

(***************************************************************************)
(* C6: once the caller's signal has fired (before the first attempt or     *)
(* while one is in flight) no further node is attempted, and the fetch     *)
(* ends with an error that is not AllNodesFailed.  abortedAt is the number *)
(* of attempts started when the signal fired.  (Stated for a pool that has *)
(* a node to attempt.)                                                     *)
(***************************************************************************)
C6_CancellationStops ==
  (abortedAt >= 0 /\ Len(servers) > 0) =>
    /\ Len(attemptLog) <= abortedAt
    /\ pc = "done" => (outcome.kind = "thrown" /\ outcome.code # "ALL_SERVERS_FAILED")

(***************************************************************************)
(* C7 as stated: fetch fails with AllNodesFailed only when no healthy node *)
(* remains untried; the error carries the attempt count and the last       *)
(* attempt's error.                                                        *)
(***************************************************************************)
C7_OnlyWhenExhausted ==
  FailedWithAllServersFailed =>
    /\ HealthyUntried = {}
    /\ outcome.attempts = Len(attemptLog)
    /\ outcome.cause = LastAttemptError

(***************************************************************************)
(* C7 amended: fetch fails with AllNodesFailed only when no healthy node   *)
(* remains untried or maxAttempts attempts have been made; the error       *)
(* carries the attempt count and the last attempt's error (none when no    *)
(* attempt was made).                                                      *)
(***************************************************************************)
C7_ExhaustedOrMaxAttempts ==
  FailedWithAllServersFailed =>
    /\ HealthyUntried = {} \/ Len(attemptLog) >= maxRetries
    /\ outcome.attempts = Len(attemptLog)
    /\ outcome.cause = LastAttemptError

\* AllNodesFailed after a failed attempt on the only healthy node, with
\* further attempts still allowed.
C7_Witness ==
  /\ FailedWithAllServersFailed
  /\ Len(servers) >= 2
  /\ Len(attemptLog) = 1
  /\ maxRetries > 1
  /\ HealthyUntried = {}
  /\ outcome.cause = "TIMEOUT"

(***************************************************************************)
(* C8 as stated: two nodes that both fail, maxAttempts = 2 (no             *)
(* cancellation, no other report): fetch fails with AllNodesFailed,        *)
(* attempt count 2, each node having got exactly one failure report.       *)
(***************************************************************************)
C8_Scenario ==
  /\ Len(servers) = 2
  /\ maxRetries = 2
  /\ pc = "done"
  /\ outcome.kind = "thrown"
  /\ signal # "aborted"
  /\ probeCount = 0

C8_Result ==
  /\ outcome.code = "ALL_SERVERS_FAILED"
  /\ outcome.attempts = 2
  /\ Len(reportLog) = 2
  /\ \A i \in 1..Len(servers) :
       Cardinality(ReportsFor(servers[i].url, "failure")) = 1

C8_TwoNodesBothFail == C8_Scenario => C8_Result

(***************************************************************************)
(* C8 amended: the same, for two nodes that are both healthy when fetch is *)
(* called.                                                                 *)
(***************************************************************************)
C8_TwoHealthyNodesBothFail ==
  (C8_Scenario /\ Cardinality(healthyAtStart) = 2) => C8_Result

C8_Witness ==
  /\ C8_Scenario
  /\ Cardinality(healthyAtStart) = 2
  /\ outcome.attempts = 2

(***************************************************************************)
(* C9: a relay's FETCH_ERROR answer is never returned to the caller as the *)
(* result of fetch, and never reported as a success of that node.          *)
(***************************************************************************)
C9_RelayErrorNotReturned ==
  (pc = "done" /\ outcome.kind = "returned") => outcome.response.relayError = "none"

(***************************************************************************)
(* C10: a fetch of an unparsable target URL makes at most one attempt.     *)
(***************************************************************************)
C10_InvalidUrlNotRetried ==
  (pc # "idle" /\ targetUrl \notin ValidTargets) => Len(attemptLog) <= 1

(***************************************************************************)
(* C11: with maxFailures = 3 a node is still healthy after 1 or 2          *)
(* consecutive failure reports, is unhealthy right after the 3rd, and a    *)
(* success report makes it healthy with consecutiveFailures (failCount)    *)
(* reset to 0.  streak counts the failure reports since the node's last    *)
(* success report (or since it was added).                                 *)
(***************************************************************************)
C11_ThreeFailuresThenSuccess ==
  \A n \in NodeSet :
    LET i == IndexOf(servers, Url(n, 0)) IN
    i > 0 =>
      /\ streak[n] \in 1..(DefaultMaxFailures - 1) => servers[i].healthy
      /\ (poolCall.op = "reportFailure" /\ poolCall.url = Url(n, 0)
            /\ streak[n] = DefaultMaxFailures)
           => (~servers[i].healthy /\ servers[i].failCount = DefaultMaxFailures)
      /\ (poolCall.op = "reportSuccess" /\ poolCall.url = Url(n, 0))
           => (servers[i].healthy /\ servers[i].failCount = 0)

\* A success report has just made a node healthy that three failure reports
\* had made unhealthy.
C11_Witness ==
  /\ poolCall.op = "reportSuccess"
  /\ poolCall.url \in poolCall.blocked
  /\ callCount = 5
  /\ LET i == IndexOf(servers, poolCall.url) IN
     i > 0 /\ servers[i].healthy /\ servers[i].failCount = 0
           /\ servers[i].totalRequests = DefaultMaxFailures + 1

(***************************************************************************)
(* C12: a node marked unhealthy whose last check is at most the recovery   *)
(* interval old is not returned by selectServer, getNextServer or          *)
(* getHealthyServers; a node marked unhealthy whose last check is older is *)
(* treated as healthy by the query: its record is healthy afterwards, and  *)
(* getHealthyServers lists it.                                             *)
(***************************************************************************)
PoolQueries == {"selectServer", "getNextServer", "getHealthyServers"}

C12_UnhealthyUntilRecovery ==
  poolCall.op \in PoolQueries =>
    /\ Range(poolCall.result) \cap poolCall.blocked = {}
    /\ \A u \in poolCall.due :
         LET i == IndexOf(servers, u) IN
         i > 0 /\ servers[i].healthy /\ servers[i].failCount = 0
    /\ \A u \in poolCall.blocked :
         LET i == IndexOf(servers, u) IN i > 0 /\ ~servers[i].healthy
    /\ poolCall.op = "getHealthyServers" => poolCall.due \subseteq Range(poolCall.result)

\* selectServer has just returned a node that three failures had made
\* unhealthy more than a recovery interval ago.
C12_Witness ==
  /\ poolCall.op = "selectServer"
  /\ poolCall.due # {}
  /\ Range(poolCall.result) \subseteq poolCall.due
  /\ poolCall.result # <<>>

(***************************************************************************)
(* C13: under every strategy selectServer returns a node that is healthy   *)
(* after the lazy-recovery evaluation, or null; null exactly when the pool *)
(* has no such node (the empty pool included).  The nodes healthy after    *)
(* the evaluation are those of the pool that were not blocked.             *)
(***************************************************************************)
Eligible == Range(UrlsOf(servers)) \ poolCall.blocked

C13_HealthyNodeOrNull ==
  poolCall.op = "selectServer" =>
    /\ Len(poolCall.result) <= 1
    /\ Range(poolCall.result) \subseteq Eligible
    /\ (poolCall.result = <<>>) <=> (Eligible = {})
    /\ \A u \in Range(poolCall.result) : servers[IndexOf(servers, u)].healthy

\* selectServer has just returned null on a pool of three nodes that are all
\* unhealthy and not yet due for recovery.
C13_Witness ==
  /\ poolCall.op = "selectServer"
  /\ poolCall.result = <<>>
  /\ Len(servers) = 3
  /\ poolCall.blocked = Range(UrlsOf(servers))

(***************************************************************************)
(* C14: under strategy "fastest" selectServer returns a healthy node whose *)
(* latency estimate is minimal among the healthy nodes and whose priority  *)
(* value is the lowest among those of that latency, wherever the node      *)
(* stands in the pool.                                                     *)
(***************************************************************************)
EligibleRecords == {servers[i] : i \in {j \in 1..Len(servers) : servers[j].url \in Eligible}}

C14_FastestThenPriority ==
  (poolCall.op = "selectServer" /\ poolOptions.strategy = "fastest"
     /\ poolCall.result # <<>>) =>
    LET r == servers[IndexOf(servers, poolCall.result[1])] IN
    \A s \in EligibleRecords :
      /\ r.latency <= s.latency
      /\ s.latency = r.latency => r.priority <= s.priority

\* The node selected was added last, one healthy node is slower, and another
\* has the same latency but a higher priority value.
C14_Witness ==
  /\ poolCall.op = "selectServer"
  /\ poolOptions.strategy = "fastest"
  /\ poolCall.result = <<Url(Nodes[3], 0)>>
  /\ LET r == servers[IndexOf(servers, poolCall.result[1])] IN
     /\ r.latency < Infinity
     /\ \E s \in EligibleRecords : s.latency > r.latency /\ s.latency < Infinity
     /\ \E s \in EligibleRecords : s.latency = r.latency /\ s.priority > r.priority

(***************************************************************************)
(* C15: under strategy "round-robin" a selectServer call that finds a      *)
(* healthy node returns the healthy node at index (counter mod healthy     *)
(* count) and increases the counter by exactly 1; no step lowers the       *)
(* counter; and while the healthy list stays the same n nodes, any n       *)
(* consecutive selections return n different nodes.                        *)
(***************************************************************************)
HealthyNow == SelectSeq(UrlsOf(servers), LAMBDA u : u \in Eligible)

C15_IndexedByCounter ==
  (poolCall.op = "selectServer" /\ poolOptions.strategy = "round-robin"
     /\ poolCall.result # <<>>) =>
    /\ poolCall.result[1] = HealthyNow[(poolCall.rrBefore % Len(HealthyNow)) + 1]
    /\ roundRobinIndex = poolCall.rrBefore + 1

C15_EachOncePerRound ==
  poolOptions.strategy = "round-robin" =>
    \A i, j \in 1..Len(rotation.picks) :
      (i < j /\ j - i < Len(rotation.healthy)) => rotation.picks[i] # rotation.picks[j]

C15_CounterStep ==
  /\ roundRobinIndex' >= roundRobinIndex
  /\ roundRobinIndex' <= roundRobinIndex + 1

C15_RoundRobin ==
  /\ [](C15_IndexedByCounter /\ C15_EachOncePerRound)
  /\ [][C15_CounterStep]_vars

\* Four selections in a row on three healthy nodes: each node once, then the
\* first again.
C15_Witness ==
  /\ poolOptions.strategy = "round-robin"
  /\ Len(rotation.healthy) = 3
  /\ Len(rotation.picks) = 4
  /\ rotation.picks[4] = rotation.picks[1]
  /\ roundRobinIndex = 4

(***************************************************************************)
(* C16: after any sequence of addServer, removeServer, discovery updates   *)
(* and reports the pool holds at most one record per normalized URL (the   *)
(* URL without its trailing slashes), every record is kept under its       *)
(* normalized URL, and an addServer leaves exactly one record for the URL  *)
(* it was given.                                                           *)
(***************************************************************************)
C16_OneRecordPerUrl ==
  /\ \A i, j \in 1..Len(servers) : i # j => servers[i].url.text # servers[j].url.text
  /\ \A i \in 1..Len(servers) : servers[i].url.trailing = 0
  /\ poolCall.op = "addServer" =>
       Cardinality({i \in 1..Len(servers) : servers[i].url.text = poolCall.url.text}) = 1

\* addServer(url + "/", 1) has just been called for a node that the pool
\* already held, with reports on its record.
C16_Witness ==
  /\ poolCall.op = "addServer"
  /\ Len(servers) = 2
  /\ LET r == servers[IndexOf(servers, poolCall.url)] IN
     r.priority = 1 /\ r.totalRequests > 0

\* The target answered the relay's fetch in this exchange.
UpstreamAnswered == relayPc \in {"answered", "decoded"} /\ upstream.reachable

\* C17: for every status s the target answers with, 3xx, 4xx and 5xx
\* included, the relay's reply has status 200 and carries the decimal text of
\* s in x-bare-status; the response the client decodes from it has status s
\* and ok exactly when 200 <= s < 300.  A redirect status is the one relayed:
\* the status of the page it points to is never put in its place.
C17_WrapperCarriesStatus ==
  UpstreamAnswered =>
    /\ relayReply.status = 200
    /\ "x-bare-status" \in relayReply.headers
    /\ relayReply.xBareStatus = toString(upstream.status)
    /\ relayPc = "decoded" =>
         /\ decoded.status = upstream.status
         /\ decoded.ok = (200 <= upstream.status /\ upstream.status < 300)

\* A redirect was relayed and decoded: the client sees 301, not ok, while the
\* page the redirect names would have answered 200.
C17_Witness ==
  /\ relayPc = "decoded"
  /\ upstream.reachable
  /\ upstream.status = 301
  /\ upstream.locationStatus = 200
  /\ relayReply.status = 200
  /\ relayReply.xBareStatus = <<3, 0, 1>>
  /\ decoded.status = 301
  /\ ~decoded.ok

\* The deny-listed half of C18: whatever the target sends, in whatever
\* spelling, no name of STRIP_HEADERS is a key of the x-bare-headers snapshot
\* or a header of the wrapper response.
DenyListedNeverRelayed ==
  UpstreamAnswered =>
    /\ relayReply.snapshot \cap STRIP_HEADERS = {}
    /\ relayReply.headers \cap STRIP_HEADERS = {}

\* C18: for every response of the target, none of the ten deny-listed header
\* names, compared without regard to case, is in the x-bare-headers snapshot
\* or among the wrapper response's own headers, and every other header the
\* target sent is in the snapshot.
C18_DeniedDroppedOthersKept ==
  UpstreamAnswered =>
    /\ relayReply.snapshot \cap STRIP_HEADERS = {}
    /\ relayReply.headers \cap STRIP_HEADERS = {}
    /\ \A name \in upstream.headers :
         toLowerCase(name) \notin STRIP_HEADERS => toLowerCase(name) \in relayReply.snapshot

\* The same statement for targets that send no header named __proto__.
OrdinaryNamesKept ==
  (UpstreamAnswered /\ "__proto__" \notin upstream.headers) =>
    \A name \in upstream.headers :
      toLowerCase(name) \notin STRIP_HEADERS => toLowerCase(name) \in relayReply.snapshot

\* C19: when the request lists status codes in x-bare-pass-status and the
\* status the target answers with is one of them, the relay's own response
\* has that status.
C19_ListedStatusPropagated ==
  (UpstreamAnswered /\ upstream.status \in Range(parseBareHeaders(relayRequest).passStatus)) =>
    relayReply.status = upstream.status

\* Both sockets of the tunnel are open: the upgrade was answered 101 and
\* neither side has closed.
Established ==
  /\ tunnelPc = "established"
  /\ targetWs.readyState = "OPEN"
  /\ clientWs.readyState = "OPEN"

\* C20: in an established tunnel, when the target closes and its close
\* event carries code c and reason r the caller-facing socket is closed with
\* c and r, and when the caller closes with c and r the target socket is
\* closed with c and r; the one case left out is a peer that has closed on
\* its own before the close reaches its handler.
C20_ClosePropagates ==
  \A event \in CloseEvents :
    /\ (Established /\ pending.target = event)
         ~> \/ clientWs.closeCall = [code |-> event.code, reason |-> event.reason]
            \/ clientWs.closeEvent # NoEvent
    /\ (Established /\ pending.client = event)
         ~> \/ targetWs.closeCall = [code |-> event.code, reason |-> event.reason]
            \/ targetWs.closeEvent # NoEvent

\* The same for the close events whose code close() of the other socket
\* takes.
AcceptedClosePropagates ==
  \A event \in CloseEvents :
    /\ (Established /\ pending.target = event /\ validCloseCode(clientWs.api, event.code))
         ~> \/ clientWs.closeCall = [code |-> event.code, reason |-> event.reason]
            \/ clientWs.closeEvent # NoEvent
    /\ (Established /\ pending.client = event /\ validCloseCode(targetWs.api, event.code))
         ~> \/ targetWs.closeCall = [code |-> event.code, reason |-> event.reason]
            \/ targetWs.closeEvent # NoEvent

\* The caller closed an established tunnel without a status code and the
\* target socket is still open, no call of close() having taken effect on it.
CloseRefused ==
  /\ tunnelPc = "established"
  /\ clientWs.readyState = "CLOSED"
  /\ clientWs.closeEvent = NoStatusClosure
  /\ targetWs.readyState = "OPEN"
  /\ targetWs.closeCall = NoClose
  /\ pending.target = NoEvent

\* The target closed an established tunnel with 1000 "bye" while the caller
\* was silent, and the caller-facing socket was closed with 1000 "bye".
ClosePropagated ==
  /\ tunnelPc = "established"
  /\ targetWs.readyState = "CLOSED"
  /\ targetWs.closeEvent = [code |-> 1000, reason |-> "bye", clean |-> TRUE]
  /\ targetWs.closeCall = NoClose
  /\ clientWs.closeEvent = NoEvent
  /\ clientWs.readyState = "CLOSING"
  /\ clientWs.closeCall = [code |-> 1000, reason |-> "bye"]

\* C21: the two sockets of a tunnel are closed together: in no state is the
\* caller-facing socket closed while the target socket is open, or the target
\* socket closed while the caller-facing socket is open, a close or an error
\* during the connection attempt included.
C21_ClosedTogether ==
  /\ clientWs.readyState = "CLOSED" => targetWs.readyState # "OPEN"
  /\ targetWs.readyState = "CLOSED" => clientWs.readyState # "OPEN"

\* The timer of connectToTarget has fired on a target still connecting.
TimedOut == tunnelPc = "failed" /\ Aborted(targetWs)

Responded == tunnelPc \in {"rejected", "established", "failed"}

\* C23: once the caller-facing socket is accepted the upgrade response is
\* handed back without waiting for the target: in no state is the handler
\* still holding the response while the target connection is pending.
C23_UpgradeNotBlocked ==
  clientWs.readyState # "NONE" => Responded

\* A step in which a call of fetchNodes settles.
FetchSettles == inFlight' # inFlight /\ inFlight' \subseteq inFlight

\* The fetch that settled last failed: the registry URL did not parse, the
\* network failed, the status was not a success, or the body was not JSON,
\* was null, or held something other than a list under nodes.
FailedFetch(hist) ==
  \/ hist.outcome.kind \in {"invalid-registry-url", "network-error", "status-500", "not-json"}
  \/ hist.outcome.kind = "json" /\ hist.outcome.shape \in {"null", "nodes-not-array"}

\* C24: a step in which a node-list fetch fails leaves the cached nodes and
\* the time of the last fetch as they were, calls no listener and adds no
\* node to the pool; fetchNodes called directly (or by discover) fails with a
\* DiscoveryError, while the callback of the refresh timer swallows the
\* failure and the timer is as it was (set, unless stopAutoRefresh ran
\* in between).
C24_FailedFetchKeepsCache ==
  [][(FetchSettles /\ FailedFetch(discHist')) =>
       /\ cacheNodes' = cacheNodes
       /\ lastFetch' = lastFetch
       /\ delivered' = delivered
       /\ servers' = servers
       /\ refreshTimer' = refreshTimer
       /\ discHist'.outcome.caller = "auto" =>
            discHist'.outcome.result = "swallowed"
       /\ discHist'.outcome.caller # "auto" =>
            discHist'.outcome.result = "DiscoveryError"]_vars

\* A direct call failed on an error status after an earlier fetch had filled
\* the cache: the cache and the time of that fetch are still there.
C24_Witness ==
  /\ discHist.outcome = Settled("explicit", [kind |-> "status-500", shape |-> "none", records |-> <<>>],
                               "DiscoveryError")
  /\ cacheNodes # <<>>
  /\ lastFetch # 0
  /\ delivered # <<>>
  /\ refreshTimer

\* How many times the fan-out called the listener l.
Notifications(fanout, l) == Cardinality({i \in 1..Len(fanout) : fanout[i].to = l})

\* C25: in the step in which a node-list fetch succeeds the cache becomes
\* the validated list of that response, nothing of the old cache remaining,
\* and every listener subscribed and not unsubscribed at that moment is
\* called exactly once, with that same list, also after a listener that
\* throws; a listener that is not subscribed any more is not called.
C25_SuccessReplacesAndNotifies ==
  [][(FetchSettles /\ ~FailedFetch(discHist')) =>
       /\ cacheNodes' = validatedNodes(discHist'.outcome.records)
       /\ lastFetch' = now
       /\ \A l \in ListenerIds :
            Notifications(delivered', l) = IF l \in Range(listeners) THEN 1 ELSE 0
       /\ \A i \in 1..Len(delivered') : delivered'[i].nodes = cacheNodes']_vars

\* A second successful fetch, with the throwing listener subscribed before
\* the pool's: both were called with the new list.
C25_Witness ==
  /\ discHist.fetches = 2
  /\ inFlight = {}
  /\ discHist.outcome.result = "resolved"
  /\ listeners = <<"app", "pool">>
  /\ cacheNodes = <<[url |-> Url(Nodes[2], 1)], [url |-> Url(Nodes[1], 0)]>>
  /\ delivered = <<[to |-> "app", nodes |-> cacheNodes], [to |-> "pool", nodes |-> cacheNodes]>>

\* A record of a directory that names a node: an object whose url is a
\* string that reads as an absolute URL.
NamesNode(record) ==
  record.isObject /\ record.url.type = "string" /\ record.url.value.text \in NodeSet

\* The fetch that settles feeds the pool in its own step: the client's
\* listener is subscribed.
PoolFed(ls) == "pool" \in Range(ls)

\* A step in which discover runs its loop over the array it was handed.
DiscoverAdds == awaited.pending /\ ~awaited'.pending

\* C26: no record whose url is missing, is not a string or does not read as
\* an absolute URL is in the cache, in a call of a listener or in the pool,
\* and every record of a successful response that does name a node is in
\* the cache, in every call of that fan-out and, where the client's listener
\* is subscribed, in the pool; the nodes fetchNodes handed to discover are
\* in the pool once discover has run its loop.
C26_OnlyValidRecordsKept ==
  /\ [](/\ \A i \in 1..Len(cacheNodes) : cacheNodes[i].url.text \in NodeSet
        /\ \A i \in 1..Len(delivered) :
             \A j \in 1..Len(delivered[i].nodes) : delivered[i].nodes[j].url.text \in NodeSet
        /\ \A i \in 1..Len(servers) : servers[i].url.text \in NodeSet)
  /\ [][(FetchSettles /\ ~FailedFetch(discHist')) =>
          \A k \in 1..Len(discHist'.outcome.records) :
            LET record == discHist'.outcome.records[k]
            IN  NamesNode(record) =>
                  /\ \E i \in 1..Len(cacheNodes') : cacheNodes'[i].url = record.url.value
                  /\ \A i \in 1..Len(delivered') :
                       \E j \in 1..Len(delivered'[i].nodes) :
                         delivered'[i].nodes[j].url = record.url.value
                  /\ PoolFed(listeners) =>
                       \E i \in 1..Len(servers') :
                         servers'[i].url = normalizeUrl(record.url.value)]_vars
  /\ [][DiscoverAdds =>
          \A k \in 1..Len(awaited.nodes) :
            /\ awaited.nodes[k].url.text \in NodeSet
            /\ \E i \in 1..Len(servers') :
                 servers'[i].url = normalizeUrl(awaited.nodes[k].url)]_vars

\* A response with a record whose url does not parse, followed by a valid
\* one, was fetched with both listeners subscribed: only the valid one is in
\* the cache, in the calls and in the pool.
C26_Witness ==
  /\ discHist.outcome.result = "resolved"
  /\ Len(discHist.outcome.records) = 2
  /\ discHist.outcome.records[1].url = [type |-> "string", value |-> Url("not a url", 0)]
  /\ NamesNode(discHist.outcome.records[2])
  /\ Len(cacheNodes) = 1
  /\ Len(delivered) = 2
  /\ delivered[2].nodes = cacheNodes
  /\ UrlsOf(servers) = UrlsOf(cacheNodes)

\* The thresholds isCacheStale is asked with: none (0), a millisecond, the
\* default refresh interval, twice that, and Infinity.
MaxAges == {0, 1, DefaultRefreshInterval, 2 * DefaultRefreshInterval, Infinity}

\* The refreshInterval options a Discovery is constructed with: none (0), a
\* millisecond, the default, and Infinity.  The option is read by
\* isCacheStale and as the period of the refresh timer only, so a Discovery
\* goes through the same states whatever its value.
RefreshIntervalOptions == {0, 1, DefaultRefreshInterval, Infinity}

\* No fetch has succeeded since the construction or the last clearCache or
\* setRegistryUrl.
NeverFetched == ~discHist.sinceClear

\* C27 (as stated): while no fetch has succeeded since the construction or
\* the last clearCache or setRegistryUrl, getTimeSinceLastFetch() is
\* Infinity and isCacheStale is true for every threshold.
C27_NeverFetchedIsStale ==
  NeverFetched =>
    /\ getTimeSinceLastFetch(lastFetch, now) = Infinity
    /\ \A given \in RefreshIntervalOptions, maxAge \in MaxAges :
         isCacheStale(maxAge, refreshIntervalOption(given), lastFetch, now)

\* C27 (amended): while no fetch has succeeded since the construction or
\* the last clearCache or setRegistryUrl, getTimeSinceLastFetch() is
\* Infinity, and isCacheStale is true exactly when the threshold it compares
\* with is finite: a finite maxAge, or no maxAge on a Discovery whose
\* refreshInterval is finite.
C27_NeverFetchedIsStaleFinite ==
  NeverFetched =>
    /\ getTimeSinceLastFetch(lastFetch, now) = Infinity
    /\ \A given \in RefreshIntervalOptions, maxAge \in MaxAges :
         isCacheStale(maxAge, refreshIntervalOption(given), lastFetch, now)
           <=> \/ maxAge \notin {0, Infinity}
               \/ maxAge = 0 /\ given # Infinity

\* A fetch succeeded, the cache was cleared afterwards and time went on: the
\* cache is stale for twice the default interval, and not stale for a
\* Discovery constructed with the refreshInterval Infinity.
C27_Witness ==
  /\ NeverFetched
  /\ discHist.outcome.result = "resolved"
  /\ inFlight = {}
  /\ now > DefaultRefreshInterval
  /\ isCacheStale(2 * DefaultRefreshInterval, refreshIntervalOption(0), lastFetch, now)
  /\ ~isCacheStale(0, refreshIntervalOption(Infinity), lastFetch, now)

\* C28: for every URL string u, encodeUrl(u) returns a token and
\* decodeUrl of that token is u.
C28_RoundTrip ==
  /\ codec.pc # "threw"
  /\ codec.pc = "decoded" => codec.decoded = codec.url

\* The round trip does hold for the URL strings whose code units are all
\* below 256.
Latin1RoundTrip ==
  (\A i \in 1..Len(codec.url) : codec.url[i] < 256) =>
    /\ codec.pc # "threw"
    /\ codec.pc = "decoded" => codec.decoded = codec.url

\* What selectServer returns under the policy named by strategy.
SelectedUnder(strategy) ==
  LET sel == selectServer(servers, now, [poolOptions EXCEPT !.strategy = strategy],
                          roundRobinIndex)
  IN  IF sel.server = NoServer THEN <<>> ELSE <<sel.server>>

\* C29: every selectServer call returns the node that the policy last set
\* with client.setStrategy (the constructor's, before the first call)
\* selects.
C29_SelectionFollowsSetStrategy ==
  [][(poolCall'.op = "selectServer" /\ callCount' = callCount + 1) =>
       poolCall'.result = SelectedUnder(clientOptions.strategy)]_vars

\* The record of url in the pool svrs; only asked for URLs of the pool.
RecordOf(svrs, url) == svrs[CHOOSE i \in 1..Len(svrs) : svrs[i].url = url]

\* The call made in this step is not a report of a success or a failure.
NotAReport == callCount' = callCount + 1 /\ poolCall'.op \notin {"reportSuccess", "reportFailure"}

\* C30: a call of the pool other than reportSuccess and reportFailure
\* leaves every record that is in the pool before and after the call as it
\* was: health flag, failure count, latency, time of the last check,
\* priority and counters.
C30_OnlyReportsChangeRecords ==
  [][NotAReport =>
       \A url \in Range(UrlsOf(servers)) \cap Range(UrlsOf(servers')) :
         RecordOf(servers', url) = RecordOf(servers, url)]_vars

\* What those calls do change: the listing calls give a node whose recovery
\* time has passed its health flag back and clear its failure count;
\* addServer for a URL of the pool and setFallbackOrder write the priority.
\* Latency, time of the last check and the counters are left alone.
OtherCallsFrame ==
  [][NotAReport =>
       \A url \in Range(UrlsOf(servers)) \cap Range(UrlsOf(servers')) :
         LET before == RecordOf(servers, url)
             after == RecordOf(servers', url)
         IN  /\ after.latency = before.latency
             /\ after.lastCheck = before.lastCheck
             /\ after.successCount = before.successCount
             /\ after.totalRequests = before.totalRequests
             /\ after.priority # before.priority =>
                  poolCall'.op \in {"addServer", "setFallbackOrder"}
             /\ (after.healthy # before.healthy \/ after.failCount # before.failCount) =>
                  /\ poolCall'.op \in {"getHealthyServers", "selectServer",
                                       "getNextServer", "getStats"}
                  /\ ~before.healthy /\ after.healthy /\ after.failCount = 0
                  /\ now - before.lastCheck > poolOptions.recoveryTime]_vars

\* The step is the call op of the pool for the node url.
Reports(op, url) ==
  callCount' = callCount + 1 /\ poolCall'.op = op /\ normalizeUrl(poolCall'.url) = url

\* The step is a listing call that gives the node url another chance.
Recovers(url) ==
  callCount' = callCount + 1 /\ poolCall'.op \in PoolQueries /\ url \in poolCall'.due

\* C31: in every interleaving of the calls of the pool, a failure report
\* adds exactly one to the failure count and to the request count of its
\* node, a success report adds exactly one to its success and request
\* counts and clears the failure count, a report leaves the records of the
\* other nodes as they were, and a failure count that equals the number of
\* failure reports since the node's last success report stays equal to it
\* in every step that is not a lazy recovery of that node.
C31_ReportsAtomic ==
  [][\A i \in 1..Len(servers), j \in 1..Len(servers') :
       servers'[j].url = servers[i].url =>
         LET url == servers[i].url
             n == url.text
         IN  /\ Reports("reportFailure", url) =>
                  /\ servers'[j].failCount = servers[i].failCount + 1
                  /\ servers'[j].totalRequests = servers[i].totalRequests + 1
                  /\ servers'[j].successCount = servers[i].successCount
             /\ Reports("reportSuccess", url) =>
                  /\ servers'[j].failCount = 0
                  /\ servers'[j].totalRequests = servers[i].totalRequests + 1
                  /\ servers'[j].successCount = servers[i].successCount + 1
             /\ (\E other \in NodeSet \ {n}, op \in {"reportSuccess", "reportFailure"} :
                   Reports(op, Url(other, 0))) =>
                  servers'[j] = servers[i]
             /\ (servers[i].failCount = streak[n] /\ ~Recovers(url)) =>
                  servers'[j].failCount = streak'[n]]_vars

\* Two failure reports for the first node with a success report for the
\* second node in between: the first node counts two failures and two
\* requests, the second one success.
C31_Witness ==
  /\ poolCall.op = "reportFailure"
  /\ Len(servers) = 2
  /\ servers[1].failCount = 2 /\ servers[1].totalRequests = 2 /\ streak[Nodes[1]] = 2
  /\ servers[2].successCount = 1 /\ servers[2].totalRequests = 1 /\ servers[2].failCount = 0

\* The records of the node url before and after a success report for it.
SuccessReported(url) ==
  /\ Reports("reportSuccess", url)
  /\ IndexOf(servers, url) > 0
  /\ IndexOf(servers', url) > 0

\* C32 (as stated): a success report with the sample s makes the estimate s
\* when there was none, and 0.7 * estimate + 0.3 * s otherwise.
C32_WeightedAverage ==
  [][\A url \in PoolKeys :
       SuccessReported(url) =>
         LET before == RecordOf(servers, url).latency
             after == RecordOf(servers', url).latency
         IN  \E sample \in LatencySamples :
               IF before = Infinity THEN after = sample
               ELSE 10 * after = 7 * before + 3 * sample]_vars

\* C32 (amended): a success report with the sample s makes the estimate s
\* when there was none, and otherwise the integer nearest to
\* 0.7 * estimate + 0.3 * s.
C32_RoundedWeightedAverage ==
  [][\A url \in PoolKeys :
       SuccessReported(url) =>
         LET before == RecordOf(servers, url).latency
             after == RecordOf(servers', url).latency
         IN  \E sample \in LatencySamples :
               IF before = Infinity THEN after = sample
               ELSE /\ 10 * after - (7 * before + 3 * sample) <= 5
                    /\ (7 * before + 3 * sample) - 10 * after <= 5]_vars

\* A node with the estimate 40 after three samples, the last one rounded:
\* 30, then 0.7 * 30 + 0.3 * 50 = 36, then 0.7 * 36 + 0.3 * 50 = 40.2.
C32_Witness ==
  /\ poolCall.op = "reportSuccess"
  /\ IndexOf(servers, poolCall.url) > 0
  /\ RecordOf(servers, poolCall.url).latency = 40
  /\ RecordOf(servers, poolCall.url).successCount = 3

\* The names that are connection-scoped: host, connection, upgrade and,
\* among the names of the requests, those that begin with sec-websocket-.
HopByHop ==
  {"host", "connection", "upgrade", "sec-websocket-key", "sec-websocket-version",
   "sec-websocket-extensions", "sec-websocket-protocol"}

\* C33: the headers sent to the target hold no header named host,
\* connection or upgrade and none whose name begins with sec-websocket-, in
\* any spelling, and hold every other header of the sidecar map.
C33_HopByHopStripped ==
  handshake.pc = "connecting" =>
    /\ \A key \in handshake.wsHeaders : toLowerCase(key) \notin HopByHop
    /\ \A key \in handshake.headers :
         toLowerCase(key) \notin HopByHop => key \in handshake.wsHeaders

\* The six names the loop compares with are stripped in every spelling, and
\* nothing else is, but for a header named __proto__.
SkippedHeadersStripped ==
  handshake.pc = "connecting" =>
    /\ \A key \in handshake.wsHeaders : toLowerCase(key) \notin SkippedHeaders
    /\ \A key \in handshake.headers \ {"__proto__"} :
         toLowerCase(key) \notin SkippedHeaders => key \in handshake.wsHeaders

\* The data of the frames that came from one socket while the other socket
\* was open, in the order of their arrival.
ReceivedWhileOpen(from) ==
  LET kept == SelectSeq(frames.received, LAMBDA r : r.from = from /\ r.open)
  IN  [i \in 1..Len(kept) |-> kept[i].data]

\* C34: the frames sent to each side are the frames that arrived on the
\* other side while the receiving side was open: each one once, with the
\* data it arrived with, in the order of arrival; a frame that arrives when
\* the other side is no longer open is not sent to it.
C34_FramesRelayedInOrder ==
  /\ frames.toClient = ReceivedWhileOpen("target")
  /\ frames.toTarget = ReceivedWhileOpen("client")
  /\ frames.dropped = Len(frames.received) - Len(frames.toClient) - Len(frames.toTarget)

C34_Witness ==
  /\ targetWs.readyState = "OPEN"
  /\ clientWs.readyState = "OPEN"
  /\ frames.toClient = <<"ping", "pong">>

\* A frame that arrives after the other side has left the open state.
FrameAfterClose ==
  /\ frames.dropped = 1
  /\ Len(frames.toTarget) = 1
  /\ clientWs.readyState = "OPEN"
  /\ targetWs.readyState # "OPEN"

\* The last call of the pool made the node of record s healthy: a success
\* report for it, or a listing call made after its recovery time.
MadeHealthy(s) ==
  \/ poolCall.op = "reportSuccess" /\ normalizeUrl(poolCall.url) = s.url
  \/ poolCall.op \in PoolQueries /\ s.url \in poolCall.due

\* C35: in every state of the pool a node is unhealthy exactly when its
\* count of consecutive failures has reached maxFailures; a node that a
\* success report or a lazy recovery has just made healthy has the count 0,
\* and the count never exceeds the number of failure reports since the
\* node's last success report, so maxFailures fresh failures are needed to
\* make the node unhealthy again.
C35_UnhealthyIffMaxFailures ==
  \A i \in 1..Len(servers) :
    /\ ~servers[i].healthy <=> servers[i].failCount >= poolOptions.maxFailures
    /\ MadeHealthy(servers[i]) => servers[i].healthy /\ servers[i].failCount = 0
    /\ servers[i].failCount <= streak[servers[i].url.text]

\* A listing call has just given a node with maxFailures failures another
\* chance, next to a node that is still unhealthy.
C35_Witness ==
  /\ poolCall.op = "getHealthyServers"
  /\ poolCall.due # {}
  /\ \E i \in 1..Len(servers) :
       servers[i].url \in poolCall.due /\ streak[servers[i].url.text] = poolOptions.maxFailures

\* A node is unhealthy with exactly maxFailures consecutive failures.
UnhealthyAtMaxFailures ==
  \E i \in 1..Len(servers) :
    ~servers[i].healthy /\ servers[i].failCount = poolOptions.maxFailures

\* C36: when the caller's signal has aborted the attempt in flight, the
\* fetch ends by throwing, and by then exactly one report has been made for
\* the node of that attempt, a failure report; if the fetches before this
\* one were cancelled in flight on the same node and this fetch makes them
\* maxFailures in a row, the node is unhealthy.
C36_CancelledAttemptReportedOnce ==
  (pc = "done" /\ CancelledInFlight) =>
    /\ outcome.kind = "thrown"
    /\ server = attemptLog[Len(attemptLog)]
    /\ Len(reportLog) = Len(attemptLog)
    /\ reportLog[Len(reportLog)].url = server
    /\ Cardinality(ReportsFor(server, "failure")) = 1
    /\ ReportsFor(server, "success") = {}
    /\ (cancelled.url = server /\ cancelled.count + 1 >= poolOptions.maxFailures) =>
         \E i \in 1..Len(servers) : servers[i].url = server /\ ~servers[i].healthy

\* The third fetch in a row has been cancelled in flight on the same node.
C36_Witness ==
  /\ pc = "done"
  /\ CancelledInFlight
  /\ cancelled.url = server
  /\ cancelled.count = DefaultMaxFailures - 1
  /\ \E i \in 1..Len(servers) :
       servers[i].url = server /\ ~servers[i].healthy
         /\ servers[i].failCount = DefaultMaxFailures

\* The step is addServer for the node url, or a discovery update that lists it.
ReAdds(url) ==
  /\ callCount' = callCount + 1
  /\ poolCall'.op \in {"addServer", "discover"}
  /\ url \in Range(poolCall'.result)

\* C37: adding a node that is in the pool already, by addServer or by a
\* discovery update, leaves its health flag, failure count, latency, time
\* of the last check and counters as they were and writes its priority: the
\* priority passed to addServer, and the default 10 for every node a
\* discovery update lists.
C37_ReAddKeepsHealth ==
  [][\A url \in Range(UrlsOf(servers)) :
       ReAdds(url) =>
         /\ url \in Range(UrlsOf(servers'))
         /\ RecordOf(servers', url) =
              [RecordOf(servers, url) EXCEPT
                 !.priority = IF poolCall'.op = "discover" THEN DefaultPriority
                              ELSE poolCall'.priority]]_vars

\* A discovery update has listed a node with two failures and a preference.
C37_Witness ==
  /\ poolCall.op = "discover"
  /\ callCount = 4
  /\ \E i \in 1..Len(servers) :
       /\ servers[i].url \in Range(poolCall.result)
       /\ servers[i].failCount = 2
       /\ servers[i].totalRequests = 2
       /\ servers[i].priority = DefaultPriority

\* No fetch has been issued since setRegistryUrl returned.
NoFetchSinceSet == registry.unused

\* C38: after setRegistryUrl(u) has returned the cache holds only nodes of
\* a fetch issued against u: as long as no fetch has been issued since, the
\* cache is empty and the time of the last fetch is 0, whatever fetch
\* settles in the meantime.
C38_OldFetchCannotRepopulate ==
  NoFetchSinceSet => cacheNodes = <<>> /\ lastFetch = 0

\* A fetch that was in flight when setRegistryUrl ran has failed since: the
\* cache stays as setRegistryUrl left it.
OldFetchFailed ==
  /\ NoFetchSinceSet
  /\ discHist.outcome.result = "DiscoveryError"
  /\ inFlight = {}
  /\ cacheNodes = <<>>
  /\ lastFetch = 0

\* The step is a report of a success or a failure.
ReportMade ==
  callCount' = callCount + 1 /\ poolCall'.op \in {"reportSuccess", "reportFailure"}

\* C39: a success or failure report for a URL that is not in the pool,
\* because it was never added or has been removed, changes nothing: no
\* record is created for it and every record of the pool stays as it was.
C39_UnknownUrlReportIgnored ==
  [][(ReportMade /\ IndexOf(servers, normalizeUrl(poolCall'.url)) = 0) =>
       servers' = servers /\ roundRobinIndex' = roundRobinIndex]_vars

\* A report has been made for a node that is not in the pool, while the
\* pool holds another node with a failure on its record.
C39_Witness ==
  /\ poolCall.op \in {"reportSuccess", "reportFailure"}
  /\ IndexOf(servers, normalizeUrl(poolCall.url)) = 0
  /\ Len(servers) = 1
  /\ servers[1].failCount = 1
  /\ callCount = 5

\* A heartbeat has succeeded since the registry became reachable for good,
\* and the failure counter is 0.
HeartbeatRestored ==
  /\ heartbeat.beatSinceStable
  /\ heartbeat.lastHeartbeatSuccess
  /\ heartbeat.failures = 0

\* The node is running: its heartbeat timer is set and unregisterNode has
\* not been called.
Running == heartbeat.timer /\ ~heartbeat.leaving

\* C40: for a node that registered and whose heartbeat timer runs, once
\* the registry is reachable for good the node sends a successful heartbeat
\* again and its failure counter is 0, whatever failed before, unless the
\* node is shut down first.
C40_HeartbeatResumes ==
  (Running /\ heartbeat.stable) ~> (HeartbeatRestored \/ ~Running)

\* The same for a node that is registered, or has a registration in
\* flight, when the registry becomes reachable for good.
RegisteredHeartbeatResumes ==
  (Running /\ heartbeat.stable
     /\ (heartbeat.registered \/ heartbeat.registrations > 0 \/ heartbeat.heartbeats > 0))
    ~> (HeartbeatRestored \/ ~Running)

\* The registration sendHeartbeat made after its fifth failure has failed
\* as well, and the registry has been reachable for good since.
GaveUpRegistering ==
  /\ Running
  /\ heartbeat.stable
  /\ ~heartbeat.registered
  /\ heartbeat.registrations = 0
  /\ heartbeat.heartbeats = 0
  /\ heartbeat.failures > ReRegisterAfter

====
